---- MODULE Spec2Model ----
(***************************************************************************)
(* Model of the multi-tenant model materialization layer:                  *)
(*   TenantConnectionManager  (src/src/services/TenantConnectionManager.js)*)
(*   CacheManager             (src/src/services/CacheManager.js)           *)
(*   DistributedModelRegistry (src/unnamed/part_007)                       *)
(* JavaScript runs one task at a time: the code between two awaits is one  *)
(* atomic action.  Every process p is one asynchronous call; proc[p].pc is *)
(* the await it is suspended at.                                           *)
(***************************************************************************)
EXTENDS Integers, Sequences, FiniteSets, TLC

\* ---------------------------------------------------------------- bounds
MaxOps == 3          \* calls started in one behaviour
MaxFaults == 2       \* environment events (tier-2 flaps, failures, expiries)
MaxConns == 3        \* connection objects ever created
MaxShutdowns == 1    \* shutdown() calls
MaxTime == 4         \* the clock is not advanced past this

\* ------------------------------------------------------------ input sets
Tenants == {"acme", "globex"}
Procs == {"p1", "p2"}
StartupSchemas == <<"User", "Product">>
Names == {"User", "Product", "UnknownCollection"}

NoEntry == [absent |-> TRUE]
NoConn == 0
NoMutex == -1
ConnIds == 1..(MaxConns + 1)

\* mongoose readyState values
Disconnected == 0
Connected == 1
Connecting == 2
Disconnecting == 3

VARIABLES
  registeredSchemas,     \* Seq of model names, in insertion order (a JS Map)
  modelCreationLocks,    \* tenant -> epoch of its Mutex in the map, or NoMutex
  lockEpoch,             \* number of modelCreationLocks.clear() so far
  mutexHolder,           \* <<tenant, epoch>> -> process holding that Mutex, or "none"
  mutexQueue,            \* <<tenant, epoch>> -> Seq of processes waiting for it
  stats,                 \* cacheHits.l1/l2, cacheMisses, modelCreations, errors
  l1Cache,               \* tenant -> entry or NoEntry (the LRU cache)
  l2Store,               \* tenant -> serialized entry or NoEntry (Redis)
  isRedisConnected,      \* CacheManager.isRedisConnected
  ttl,                   \* .l1, .l2: tenant -> time its entry in that tier has left, 0 when absent
  connections,           \* tenant -> connection id or NoConn
  connectionTimestamps,  \* tenant -> last-used time, or -1 when absent
  conn,                  \* connection id -> the mongoose connection object
  nConn,                 \* connection objects created so far
  now,                   \* Date.now()
  proc,                  \* process -> its call record
  health,                \* result of the last healthCheck()
  master,                \* MasterDataCache: its Redis keys, isConnected, the running invalidation
  ops,                   \* calls started (bounded by MaxOps)
  faults,                \* environment events so far (bounded by MaxFaults)
  unregistered,          \* names removed by unregisterSchema and not registered since
  tstate,                \* tenant -> "untouched" | "first" | "firstDone" | "used"
  invDone,               \* tenant -> when its last completed cache delete began, -1 once used;
                         \* "*" -> when unregisterSchema last removed a name
  overlap,               \* process -> another call or event touched its tenant meanwhile
  banned,                \* process -> names unregistered since before its call started
  coldBy                 \* tenant -> its share of stats.modelCreations

vars == <<registeredSchemas, modelCreationLocks, lockEpoch, mutexHolder, mutexQueue,
          stats, l1Cache, l2Store, ttl, isRedisConnected, connections,
          connectionTimestamps, conn, nConn, now, proc, health, master, ops, faults,
          unregistered, tstate, invDone, overlap, banned, coldBy>>
ghostVars == <<tstate, invDone, overlap, banned, coldBy>>

mutexVars == <<modelCreationLocks, mutexHolder, mutexQueue>>
cacheVars == <<l1Cache, l2Store, isRedisConnected, ttl>>
connVars == <<connections, connectionTimestamps, conn, nConn>>

\* ---------------------------------------------------------------- helpers
Range(s) == {s[i] : i \in 1..Len(s)}

RECURSIVE SeqRemove(_, _)
SeqRemove(s, x) ==
  IF s = <<>> THEN <<>>
  ELSE IF Head(s) = x THEN SeqRemove(Tail(s), x)
  ELSE <<Head(s)>> \o SeqRemove(Tail(s), x)

MutexIds == Tenants \X (0..(MaxShutdowns + 1))

\* A fresh mongoose connection object: mongoose.createConnection() returns it
\* in the connecting state, with no models compiled on it.
NewConnection(t) ==
  [tenant |-> t, readyState |-> Connecting, models |-> {}, closed |-> FALSE, used |-> TRUE]
UnusedConnection ==
  [tenant |-> "", readyState |-> Disconnected, models |-> {}, closed |-> FALSE, used |-> FALSE]

IdleProc ==
  [op |-> "idle", pc |-> "idle", tenant |-> "", name |-> "", stage |-> 0,
   cached |-> NoEntry, src |-> "", conn |-> NoConn, ret |-> "", mx |-> NoMutex,
   closing |-> NoConn, cret |-> "",
   keys |-> {}, pending |-> {},
   visited |-> {}, models |-> {}, status |-> "", error |-> "", detached |-> FALSE,
   \* bookkeeping of what the call did, for the properties
   path |-> "", nOpen |-> 0, nSet |-> 0, nL2 |-> 0, role |-> "", invAt |-> -1,
   l1Before |-> 0, sawL2Up |-> FALSE, inCold |-> FALSE, autoReg |-> FALSE, delAt |-> 0,
   nFail |-> 0, cause |-> "", snap |-> NoEntry, afterShutdown |-> FALSE, regAt |-> {},
   unregAt |-> -1, prevPath |-> ""]

Busy(p) == proc[p].pc \notin {"idle", "done"}

\* ---------------------------------------------------------- MasterDataCache
\* A Redis key is the sequence of its ":"-separated parts.
Collections == {"costs", "units"}
Null == <<>>
Identifiers == {<<"a">>, <<"b">>}

\* generateKey: master:{tenantId}:{collection}, then :{identifier} when one is given.
generateKey(tenantId, collection, identifier) ==
  LET base == <<"master", tenantId, collection>>
  IN IF identifier # Null THEN base \o identifier ELSE base

\* Redis KEYS with a pattern whose only wildcard is a final "*": the key must
\* begin with the text before the star, separator included.
GlobMatch(pattern, key) ==
  LET fixed == Len(pattern) - 1
  IN /\ pattern[Len(pattern)] = "*"
     /\ Len(key) >= Len(pattern)
     /\ \A i \in 1..fixed : key[i] = pattern[i]

\* The cache after construction: no key, not yet connected, no invalidation running.
IdleMaster ==
  [store |-> {}, isConnected |-> FALSE, pc |-> "idle", tenant |-> "", collection |-> "",
   pattern |-> <<>>, keys |-> {}, ret |-> 0, failed |-> FALSE, touched |-> FALSE]

\* Callers are interchangeable and so are tenants: a call starts in the first
\* process that is free, and a tenant is first used after those before it.
ProcOrder == <<"p1", "p2">>
TenantOrder == <<"acme", "globex">>
Free(p) ==
  /\ ~Busy(p)
  /\ \A i, j \in 1..Len(ProcOrder) : (i < j /\ ProcOrder[j] = p) => Busy(ProcOrder[i])
Usable(t) ==
  \A i, j \in 1..Len(TenantOrder) :
     (i < j /\ TenantOrder[j] = t) => tstate[TenantOrder[i]] # "untouched"

Init ==
  /\ registeredSchemas = StartupSchemas
  /\ modelCreationLocks = [t \in Tenants |-> NoMutex]
  /\ lockEpoch = 0
  /\ mutexHolder = [m \in MutexIds |-> "none"]
  /\ mutexQueue = [m \in MutexIds |-> <<>>]
  /\ stats = [l1 |-> 0, l2 |-> 0, cacheMisses |-> 0, modelCreations |-> 0, errors |-> 0]
  /\ l1Cache = [t \in Tenants |-> NoEntry]
  /\ l2Store = [t \in Tenants |-> NoEntry]
  /\ isRedisConnected \in BOOLEAN
  /\ ttl = [l1 |-> [t \in Tenants |-> 0], l2 |-> [t \in Tenants |-> 0]]
  /\ connections = [t \in Tenants |-> NoConn]
  /\ connectionTimestamps = [t \in Tenants |-> -1]
  /\ conn = [c \in ConnIds |-> UnusedConnection]
  /\ nConn = 0
  /\ now = 0
  /\ proc = [p \in Procs |-> IdleProc]
  /\ health = [status |-> "none", l2 |-> FALSE, threw |-> FALSE]
  /\ master = IdleMaster
  /\ ops = 0
  /\ faults = 0
  /\ unregistered = {}
  /\ tstate = [t \in Tenants |-> "untouched"]
  /\ invDone = [t \in Tenants \cup {"*"} |-> -1]
  /\ overlap = [p \in Procs |-> FALSE]
  /\ banned = [p \in Procs |-> {}]
  /\ coldBy = [t \in Tenants |-> 0]

\* ------------------------------------------------------------ cache entries
\* What cacheModels stores: tenantId, timestamp and per-model metadata.  No
\* field cacheLevel is ever written (part_007 lines 195-208).
MakeEntry(t, ts, names) ==
  [tenantId |-> t, timestamp |-> ts,
   models |-> [n \in names |-> [name |-> n, schemaRegistered |-> n \in Range(registeredSchemas)]]]

\* JSON.stringify / JSON.parse of an entry (CacheManager.js lines 136, 170).
Serialize(e) == [json |-> e]
Parse(s) == s.json
\* A tier-2 value that is not JSON: JSON.parse throws on it.
Corrupt == [corrupt |-> TRUE]
Parseable(s) == "json" \in DOMAIN s

\* part_007 line 143: cachedData.cacheLevel === "L1"
IsLevelL1(e) == "cacheLevel" \in DOMAIN e /\ e.cacheLevel = "L1"

Bump(field) == [stats EXCEPT ![field] = @ + 1]

\* ------------------------------------------------------------------ mutex
\* async-mutex: acquire() takes a free mutex at once, else queues FIFO;
\* release() hands the mutex to the head of the queue.
\* Variant of the lock table with one entry for all tenants; C20 must not hold
\* of it.
LockKeyShared(t) == "acme"

\* getMutex(tenantId): the key of the tenant's Mutex in modelCreationLocks
LockKey(t) == t

MutexOf(r) == <<LockKey(r.tenant), r.mx>>

ReleaseMutex(p, r) ==
  IF r.mx = NoMutex \/ mutexHolder[MutexOf(r)] # p
  THEN /\ UNCHANGED <<mutexHolder, mutexQueue>>
  ELSE LET m == MutexOf(r) IN
       IF mutexQueue[m] = <<>>
       THEN /\ mutexHolder' = [mutexHolder EXCEPT ![m] = "none"]
            /\ UNCHANGED mutexQueue
       ELSE /\ mutexHolder' = [mutexHolder EXCEPT ![m] = Head(mutexQueue[m])]
            /\ mutexQueue' = [mutexQueue EXCEPT ![m] = Tail(@)]

\* getMutex(tenantId) then mutex.runExclusive: part_007 lines 55-60, 82-84
AcquireMutex(p, r) ==
  LET k == LockKey(r.tenant)
      e == IF modelCreationLocks[k] = NoMutex THEN lockEpoch ELSE modelCreationLocks[k]
      m == <<k, e>>
  IN /\ modelCreationLocks' = [modelCreationLocks EXCEPT ![k] = e]
     /\ IF mutexHolder[m] = "none"
        THEN /\ mutexHolder' = [mutexHolder EXCEPT ![m] = p]
             /\ UNCHANGED mutexQueue
        ELSE /\ mutexQueue' = [mutexQueue EXCEPT ![m] = Append(@, p)]
             /\ UNCHANGED mutexHolder
     /\ proc' = [proc EXCEPT ![p] = [r EXCEPT !.mx = e, !.pc = "lock"]]

\* ------------------------------------------------- TenantConnectionManager
\* createConnection up to its await: mongoose.createConnection() makes the
\* connection object, then the call waits for connected / error / timeout.
CreateConnSync(p, r, ret) ==
  /\ nConn < MaxConns
  /\ nConn' = nConn + 1
  /\ conn' = [conn EXCEPT ![nConn + 1] = NewConnection(r.tenant)]
  /\ proc' = [proc EXCEPT ![p] =
                [r EXCEPT !.pc = "cc_wait", !.conn = nConn + 1, !.ret = ret,
                          !.nOpen = @ + 1]]
  /\ UNCHANGED <<connections, connectionTimestamps>>

\* closeConnection up to its await: connection.close() is called on the
\* tracked connection; cret is where the caller goes on afterwards.
CloseConnSync(p, r, cret) ==
  LET c == connections[r.tenant] IN
  /\ conn' = [conn EXCEPT ![c].readyState = Disconnecting]
  /\ proc' = [proc EXCEPT ![p] = [r EXCEPT !.pc = "closing", !.closing = c, !.cret = cret]]
  /\ UNCHANGED <<connections, connectionTimestamps, nConn>>

\* Variant of getConnection that never reuses the tracked connection; C7 must
\* not hold of it.
GetConnAlwaysCreate(p, r, ret) == CreateConnSync(p, r, ret)

\* getConnection up to its first await
GetConnSync(p, r, ret) ==
  LET t == r.tenant
      c == connections[t]
  IN IF c # NoConn
     THEN IF conn[c].readyState = Connected
          THEN /\ connectionTimestamps' = [connectionTimestamps EXCEPT ![t] = now]
               /\ proc' = [proc EXCEPT ![p] = [r EXCEPT !.pc = ret, !.conn = c, !.ret = ret]]
               /\ UNCHANGED <<connections, conn, nConn>>
          ELSE IF conn[c].readyState = Connecting
          THEN /\ proc' = [proc EXCEPT ![p] = [r EXCEPT !.pc = "gc_wait", !.conn = c, !.ret = ret]]
               /\ UNCHANGED connVars
          ELSE CloseConnSync(p, [r EXCEPT !.ret = ret], "gc_create")
     ELSE CreateConnSync(p, r, ret)

\* ------------------------------------------------------------ CacheManager
\* cache.l1.ttl (5 minutes) and cache.l2.ttl (30 minutes), in units of the
\* model's clock.
L1Ttl == 2
L2Ttl == 3

\* CacheManager.get up to its await: tier 1 first, then tier 2 if connected.
CacheGetSync(p, r) ==
  LET t == r.tenant IN
  IF l1Cache[t] # NoEntry
  THEN \* updateAgeOnGet: the read restarts the entry's tier-1 lifetime
       /\ proc' = [proc EXCEPT ![p] = [r EXCEPT !.pc = "got", !.cached = l1Cache[t],
                                                !.src = "L1"]]
       /\ ttl' = [ttl EXCEPT !.l1[t] = L1Ttl]
  ELSE /\ UNCHANGED ttl
       /\ IF isRedisConnected
          THEN proc' = [proc EXCEPT ![p] = [r EXCEPT !.pc = "l2get", !.cached = NoEntry,
                                                     !.src = "", !.nL2 = @ + 1]]
          ELSE proc' = [proc EXCEPT ![p] = [r EXCEPT !.pc = "got", !.cached = NoEntry,
                                                     !.src = ""]]

\* Variant of CacheManager.set that stores nothing while tier 2 is down; C9
\* must not hold of it.
CacheSetNeedsTier2(p, r, e) ==
  IF isRedisConnected
  THEN /\ l1Cache' = [l1Cache EXCEPT ![r.tenant] = e]
       /\ ttl' = [ttl EXCEPT !.l1[r.tenant] = L1Ttl]
       /\ proc' = [proc EXCEPT ![p] = [r EXCEPT !.pc = "l2set", !.cached = e,
                                                !.nSet = @ + 1, !.nL2 = @ + 1]]
  ELSE /\ UNCHANGED <<l1Cache, ttl>>
       /\ proc' = [proc EXCEPT ![p] = [r EXCEPT !.pc = "setdone", !.cached = e]]

\* CacheManager.set up to its await: tier 1 always, tier 2 if connected.
CacheSetSync(p, r, e) ==
  /\ l1Cache' = [l1Cache EXCEPT ![r.tenant] = e]
  /\ ttl' = [ttl EXCEPT !.l1[r.tenant] = L1Ttl]
  /\ IF isRedisConnected
     THEN proc' = [proc EXCEPT ![p] = [r EXCEPT !.pc = "l2set", !.cached = e,
                                                !.nSet = @ + 1, !.nL2 = @ + 1]]
     ELSE proc' = [proc EXCEPT ![p] = [r EXCEPT !.pc = "setdone", !.cached = e,
                                                !.nSet = @ + 1]]

\* ------------------------------------------------ DistributedModelRegistry
IsGetModels(r) == r.op \in {"getModels", "getModel"}

\* The record of a settled call: its working fields are dropped.
Settled(r, status, why) ==
  [r EXCEPT !.pc = "done", !.status = status, !.error = why, !.ret = "", !.mx = NoMutex,
            !.closing = NoConn, !.cret = "", !.keys = {}, !.pending = {}, !.visited = {},
            !.inCold = FALSE, !.delAt = 0]

\* getModel's check of the mapping getModels returned (part_007 lines 225-227).
Outcome(r, names) ==
  IF r.op = "getModel" /\ r.name \notin names
  THEN Settled([r EXCEPT !.models = names], "failed", "ModelNotFound")
  ELSE Settled([r EXCEPT !.models = names], "ok", "")

\* Variant of a rejecting call that leaves the tenant's mutex held; C25 must
\* not hold of it.
FailCallKeepsLock(p, r, why) ==
  /\ proc' = [proc EXCEPT ![p] = Settled(r, "failed", why)]
  /\ stats' = Bump("errors")
  /\ UNCHANGED mutexVars

\* The call rejects: runExclusive releases the mutex, getModels counts the error.
FailCall(p, r, why) ==
  /\ proc' = [proc EXCEPT ![p] = Settled(r, "failed", why)]
  /\ ReleaseMutex(p, r)
  /\ stats' = Bump("errors")
  /\ UNCHANGED modelCreationLocks

\* getModels after getCachedModels returned null: the mutex on the first attempt,
\* createTenantModels inside it.
AfterMiss(p, r) ==
  IF r.stage = 1
  THEN /\ AcquireMutex(p, r)
       /\ UNCHANGED connVars
  ELSE /\ GetConnSync(p, [r EXCEPT !.inCold = TRUE], "ctm")
       /\ UNCHANGED mutexVars

\* The registered names createTenantModels has not bound yet, in Map order.
Remaining(r) == SelectSeq(registeredSchemas, LAMBDA n : n \notin r.visited)

\* How many leading names of s are already compiled on the connection.
RECURSIVE ReuseCount(_, _)
ReuseCount(s, compiled) ==
  IF s = <<>> \/ Head(s) \notin compiled THEN 0
  ELSE 1 + ReuseCount(Tail(s), compiled)

\* createTenantModels' loop from one await to the next, then cacheModels.
CtmStep(p, r) ==
  LET rem == Remaining(r)
      k == ReuseCount(rem, conn[r.conn].models)
      reused == {rem[i] : i \in 1..k}
  IN IF k < Len(rem)
     THEN \* connection.model(name, schema), then await createIndexes()
          LET n == rem[k + 1] IN
          /\ conn' = [conn EXCEPT ![r.conn].models = @ \cup {n}]
          /\ proc' = [proc EXCEPT ![p] =
                        [r EXCEPT !.pc = "idx", !.visited = @ \cup reused \cup {n},
                                  !.models = @ \cup reused \cup {n}]]
          /\ UNCHANGED <<l1Cache, now, ttl>>
     ELSE /\ CacheSetSync(p, [r EXCEPT !.visited = @ \cup reused, !.models = @ \cup reused],
                          MakeEntry(r.tenant, now, r.models \cup reused))
          /\ now' = now + 1
          /\ UNCHANGED conn

\* Variant of the rebuild that binds every cached name, registered or not; C5
\* must not hold of it.
RebuildAllCached(e) == DOMAIN e.models

\* The handles getCachedModels rebuilds: cached names whose schema is registered.
RebuildNames(e) == DOMAIN e.models \cap Range(registeredSchemas)

\* --------------------------------------------------------------- bookkeeping
Touches(q, t) == Busy(q) /\ (proc[q].tenant = t \/ proc[q].tenant = "*" \/ t = "*")

\* A call on tenant t (or on all tenants, "*") starts in process p.
StartMarks(p, t, reg) ==
  /\ overlap' = [q \in Procs |->
                   IF q = p THEN \E q2 \in Procs \ {p} : Touches(q2, t)
                   ELSE overlap[q] \/ Touches(q, t)]
  /\ tstate' = [u \in Tenants |->
                   IF u = t \/ t = "*"
                   THEN (IF tstate[u] = "untouched" /\ t # "*" THEN "first" ELSE "used")
                   ELSE tstate[u]]
  /\ banned' = [q \in Procs |-> IF q = p THEN unregistered \ reg ELSE banned[q] \ reg]
  /\ UNCHANGED coldBy

\* A call of process p ends.
EndMarks(r, ok, cold) ==
  /\ tstate' = IF r.role = "first" /\ tstate[r.tenant] = "first"
               THEN [tstate EXCEPT ![r.tenant] = IF ok THEN "firstDone" ELSE "used"]
               ELSE tstate
  /\ coldBy' = IF cold THEN [coldBy EXCEPT ![r.tenant] = @ + 1] ELSE coldBy

RoleAt(t) ==
  IF tstate[t] = "untouched" THEN "first"
  ELSE IF tstate[t] = "firstDone" THEN "second" ELSE "other"

\* shutdown() calls that have returned: every started one that is not running
ShutdownsCompleted ==
  lockEpoch - Cardinality({q \in Procs : Busy(q) /\ proc[q].op = "shutdown"})

NewCall(op, t) ==
  [IdleProc EXCEPT !.op = op, !.tenant = t, !.status = "running", !.stage = 1,
                   !.role = IF t \in Tenants THEN RoleAt(t) ELSE "other",
                   !.invAt = IF t \in Tenants THEN invDone[t] ELSE -1, !.l1Before = stats.l1,
                   !.sawL2Up = isRedisConnected, !.afterShutdown = ShutdownsCompleted > 0,
                   !.unregAt = invDone["*"]]

\* ------------------------------------------------------------- getModels
\* How the call that last ran in a process ended, when it was a getModels on
\* tenant t: "failed" (if it ran alone on t), or what answered it.
PrevOutcome(r, overlapped, t) ==
  IF r.op = "getModels" /\ r.tenant = t /\ r.pc = "done"
  THEN (IF r.status = "failed" THEN (IF overlapped THEN "" ELSE "failed") ELSE r.path)
  ELSE ""

\* getModels(tenantId): getCachedModels -> cacheManager.get, up to the await.
GetModelsStart(p, t) ==
  /\ Free(p)
  /\ Usable(t)
  /\ ops < MaxOps
  /\ ops' = ops + 1
  /\ CacheGetSync(p, [NewCall("getModels", t) EXCEPT
                        !.prevPath = PrevOutcome(proc[p], overlap[p], t),
                        !.regAt = Range(registeredSchemas)])
  /\ StartMarks(p, t, {})
  /\ invDone' = [invDone EXCEPT ![t] = -1]
  /\ UNCHANGED <<registeredSchemas, mutexVars, lockEpoch, stats, l1Cache, l2Store,
                 isRedisConnected, connVars,
                 now, health, master, faults, unregistered>>

\* Variant of the tier-2 hit that returns the value without copying it into
\* tier 1; C22 must not hold of it.
L2GetOkNoPopulate(p) ==
  LET r == proc[p]
      v == l2Store[r.tenant]
  IN /\ r.pc = "l2get"
     /\ isRedisConnected
     /\ IF v # NoEntry /\ Parseable(v)
        THEN proc' = [proc EXCEPT ![p] = [r EXCEPT !.pc = "got", !.cached = Parse(v),
                                                   !.src = "L2"]]
        ELSE proc' = [proc EXCEPT ![p] = [r EXCEPT !.pc = "got"]]
     /\ UNCHANGED <<registeredSchemas, mutexVars, lockEpoch, stats, cacheVars, connVars, now,
                    health, master, ops, faults, unregistered, ghostVars>>

\* tier 2 answered the get: a hit is parsed and copied into tier 1; a value
\* JSON.parse rejects lands in the catch and the read goes on as a miss.
L2GetOk(p) ==
  LET r == proc[p]
      v == l2Store[r.tenant]
  IN /\ r.pc = "l2get"
     /\ isRedisConnected
     /\ IF v # NoEntry /\ Parseable(v)
        THEN /\ l1Cache' = [l1Cache EXCEPT ![r.tenant] = Parse(v)]
             /\ ttl' = [ttl EXCEPT !.l1[r.tenant] = L1Ttl]
             /\ proc' = [proc EXCEPT ![p] = [r EXCEPT !.pc = "got", !.cached = Parse(v),
                                                      !.src = "L2"]]
        ELSE /\ proc' = [proc EXCEPT ![p] = [r EXCEPT !.pc = "got"]]
             /\ UNCHANGED <<l1Cache, ttl>>
     /\ UNCHANGED <<registeredSchemas, mutexVars, lockEpoch, stats, l2Store,
                    isRedisConnected, connVars, now, health, master, ops, faults, unregistered,
                    ghostVars>>

\* the tier-2 get raised: logged, the read continues as a miss.
L2GetFail(p) ==
  LET r == proc[p] IN
  /\ r.pc = "l2get"
  /\ \/ ~isRedisConnected /\ UNCHANGED faults
     \/ faults < MaxFaults /\ faults' = faults + 1
  /\ proc' = [proc EXCEPT ![p] = [r EXCEPT !.pc = "got"]]
  /\ UNCHANGED <<registeredSchemas, mutexVars, lockEpoch, stats, cacheVars, connVars,
                 now, health, master, ops, unregistered, ghostVars>>

\* getCachedModels after cacheManager.get: a miss is counted and getModels goes
\* on; a hit asks for the tenant's connection.
Got(p) ==
  LET r == proc[p] IN
  /\ r.pc = "got"
  /\ IsGetModels(r)
  /\ IF r.cached = NoEntry
     THEN /\ stats' = Bump("cacheMisses")
          /\ AfterMiss(p, r)
     ELSE /\ GetConnSync(p, r, "rebuild")
          /\ UNCHANGED <<stats, mutexVars>>
  /\ UNCHANGED <<registeredSchemas, lockEpoch, cacheVars, now, health, master, ops, faults,
                 unregistered, ghostVars>>

\* getCachedModels caught a connection error and returned null (no miss counted).
NoHit(p) ==
  LET r == proc[p] IN
  /\ r.pc = "nohit"
  /\ AfterMiss(p, r)
  /\ UNCHANGED <<registeredSchemas, lockEpoch, stats, cacheVars, now, health, master, ops,
                 faults, unregistered, ghostVars>>

\* Variant of runExclusive's callback without the second cache check: it goes
\* straight to createTenantModels.  C1 must not hold of it.
LockGrantedNoRecheck(p) ==
  LET r == proc[p] IN
  /\ r.pc = "lock"
  /\ mutexHolder[MutexOf(r)] = p
  /\ GetConnSync(p, [r EXCEPT !.stage = 2, !.inCold = TRUE], "ctm")
  /\ UNCHANGED <<registeredSchemas, mutexVars, lockEpoch, stats, cacheVars, now, health, master,
                 ops, faults, unregistered, ghostVars>>

\* runExclusive's callback starts: the cache is checked again inside the mutex.
LockGranted(p) ==
  LET r == proc[p] IN
  /\ r.pc = "lock"
  /\ mutexHolder[MutexOf(r)] = p
  /\ CacheGetSync(p, [r EXCEPT !.stage = 2])
  /\ UNCHANGED <<registeredSchemas, mutexVars, lockEpoch, stats, l1Cache, l2Store,
                 isRedisConnected, connVars,
                 now, health, master, ops, faults, unregistered, ghostVars>>

\* getCachedModels with the connection: bind the cached names, count the hit.
Rebuild(p) ==
  LET r == proc[p]
      names == RebuildNames(r.cached)
  IN /\ r.pc = "rebuild"
     /\ conn' = [conn EXCEPT ![r.conn].models = @ \cup names]
     /\ stats' = IF IsLevelL1(r.cached) THEN Bump("l1") ELSE Bump("l2")
     /\ proc' = [proc EXCEPT ![p] = Outcome([r EXCEPT !.path = r.src], names)]
     /\ ReleaseMutex(p, r)
     /\ EndMarks(r, TRUE, FALSE)
     /\ UNCHANGED <<registeredSchemas, modelCreationLocks, lockEpoch, cacheVars,
                    connections, connectionTimestamps, nConn, now, health, master, ops, faults,
                    unregistered, invDone, overlap, banned>>

\* createTenantModels with the connection: the bind loop starts.
Ctm(p) ==
  LET r == proc[p] IN
  /\ r.pc = "ctm"
  /\ CtmStep(p, r)
  /\ UNCHANGED <<registeredSchemas, mutexVars, lockEpoch, stats, l2Store, isRedisConnected,
                 connections, connectionTimestamps, nConn, health, master, ops, faults,
                 unregistered, ghostVars>>

\* createIndexes() resolved: the loop goes on.
IdxOk(p) ==
  LET r == proc[p] IN
  /\ r.pc = "idx"
  /\ conn[r.conn].readyState = Connected
  /\ CtmStep(p, r)
  /\ UNCHANGED <<registeredSchemas, mutexVars, lockEpoch, stats, l2Store, isRedisConnected,
                 connections, connectionTimestamps, nConn, health, master, ops, faults,
                 unregistered, ghostVars>>

\* Variant of the failing bind that first caches the models bound so far; C11
\* must not hold of it.
IdxFailCachesPartial(p) ==
  LET r == proc[p] IN
  /\ r.pc = "idx"
  /\ \/ conn[r.conn].readyState # Connected /\ UNCHANGED faults
     \/ faults < MaxFaults /\ faults' = faults + 1
  /\ l1Cache' = [l1Cache EXCEPT ![r.tenant] = MakeEntry(r.tenant, now, r.models)]
  /\ ttl' = [ttl EXCEPT !.l1[r.tenant] = L1Ttl]
  /\ FailCall(p, [r EXCEPT !.nSet = @ + 1], "Bind")
  /\ EndMarks(r, FALSE, FALSE)
  /\ UNCHANGED <<registeredSchemas, lockEpoch, l2Store, isRedisConnected, connVars, now,
                 health, master, ops, unregistered, invDone, overlap, banned>>

\* createIndexes() rejected: the materialization fails before cacheModels.
IdxFail(p) ==
  LET r == proc[p] IN
  /\ r.pc = "idx"
  /\ \/ conn[r.conn].readyState # Connected /\ UNCHANGED faults
     \/ faults < MaxFaults /\ faults' = faults + 1
  /\ FailCall(p, r, "Bind")
  /\ EndMarks(r, FALSE, FALSE)
  /\ UNCHANGED <<registeredSchemas, lockEpoch, cacheVars, connVars, now, health, master, ops,
                 unregistered, invDone, overlap, banned>>

\* tier 2 stored the entry (setEx resolved).
L2SetOk(p) ==
  LET r == proc[p] IN
  /\ r.pc = "l2set"
  /\ isRedisConnected
  /\ l2Store' = [l2Store EXCEPT ![r.tenant] = Serialize(r.cached)]
  /\ ttl' = [ttl EXCEPT !.l2[r.tenant] = L2Ttl]
  /\ proc' = [proc EXCEPT ![p] = [r EXCEPT !.pc = "setdone"]]
  /\ UNCHANGED <<registeredSchemas, mutexVars, lockEpoch, stats, l1Cache, isRedisConnected,
                 connVars, now, health, master, ops, faults, unregistered, ghostVars>>

\* setEx raised: logged, tier 1 keeps the entry.
L2SetFail(p) ==
  LET r == proc[p] IN
  /\ r.pc = "l2set"
  /\ \/ ~isRedisConnected /\ UNCHANGED faults
     \/ faults < MaxFaults /\ faults' = faults + 1
  /\ proc' = [proc EXCEPT ![p] = [r EXCEPT !.pc = "setdone"]]
  /\ UNCHANGED <<registeredSchemas, mutexVars, lockEpoch, stats, cacheVars, connVars,
                 now, health, master, ops, unregistered, ghostVars>>

\* cacheModels returned: the creation is counted, the mutex released.
ColdFinish(p) ==
  LET r == proc[p] IN
  /\ r.pc = "setdone"
  /\ IsGetModels(r)
  /\ stats' = Bump("modelCreations")
  /\ proc' = [proc EXCEPT ![p] = Outcome([r EXCEPT !.path = "cold"], r.models)]
  /\ ReleaseMutex(p, r)
  /\ EndMarks(r, TRUE, TRUE)
  /\ UNCHANGED <<registeredSchemas, modelCreationLocks, lockEpoch, cacheVars, connVars,
                 now, health, master, ops, faults, unregistered, invDone, overlap, banned>>

\* ---------------------------------------------- connection open and close
\* The 'connected' event: createConnection stores the connection and returns it.
CcConnected(p) ==
  LET r == proc[p] IN
  /\ r.pc = "cc_wait"
  /\ conn' = [conn EXCEPT ![r.conn].readyState = Connected]
  /\ connections' = [connections EXCEPT ![r.tenant] = r.conn]
  /\ connectionTimestamps' = [connectionTimestamps EXCEPT ![r.tenant] = now]
  /\ proc' = [proc EXCEPT ![p] = [r EXCEPT !.pc = r.ret]]
  /\ UNCHANGED <<registeredSchemas, mutexVars, lockEpoch, stats, cacheVars, nConn, now,
                 health, master, ops, faults, unregistered, ghostVars>>

\* createConnection's catch: whatever was caught, the error thrown on is
\* new Error("Failed to establish database connection for tenant ...").
ConnectionFailure(cause) == "Connection"

\* createConnection threw: inside getCachedModels the error is caught, inside
\* createTenantModels it rejects getModels, and a getConnection called on the
\* manager rejects with it.  cause is what createConnection caught.
ConnFailed(p, r, cause) ==
  LET r2 == [r EXCEPT !.conn = NoConn, !.nFail = @ + 1, !.cause = cause] IN
  IF r.ret = "rebuild"
  THEN /\ proc' = [proc EXCEPT ![p] = [r2 EXCEPT !.pc = "nohit"]]
       /\ UNCHANGED <<mutexVars, stats, tstate, coldBy>>
  ELSE IF r.op = "getConnection"
  THEN /\ proc' = [proc EXCEPT ![p] = Settled(r2, "failed", ConnectionFailure(cause))]
       /\ EndMarks(r, FALSE, FALSE)
       /\ UNCHANGED <<mutexVars, stats>>
  ELSE /\ FailCall(p, r2, ConnectionFailure(cause))
       /\ EndMarks(r, FALSE, FALSE)

\* The 'error' event while opening.
CcError(p) ==
  LET r == proc[p] IN
  /\ r.pc = "cc_wait"
  /\ faults < MaxFaults
  /\ faults' = faults + 1
  /\ conn' = [conn EXCEPT ![r.conn].readyState = Disconnected]
  /\ ConnFailed(p, r, "error")
  /\ UNCHANGED <<registeredSchemas, lockEpoch, cacheVars, connections,
                 connectionTimestamps, nConn, now, health, master, ops, unregistered, invDone,
                 overlap, banned>>

\* The 10 s timer fired first: the connection object is left connecting.
CcTimeout(p) ==
  LET r == proc[p] IN
  /\ r.pc = "cc_wait"
  /\ faults < MaxFaults
  /\ faults' = faults + 1
  /\ ConnFailed(p, r, "timeout")
  /\ UNCHANGED <<registeredSchemas, lockEpoch, cacheVars, connVars, now, health, master, ops,
                 unregistered, invDone, overlap, banned>>

\* Variant of a settled close() after which closeConnection deletes the
\* connection entry alone; C27 must not hold of it.
ConnClosedKeepsTimestamp(p) ==
  LET r == proc[p] IN
  /\ r.pc = "closing"
  /\ conn' = [conn EXCEPT ![r.closing].readyState = Disconnected, ![r.closing].closed = TRUE]
  /\ connections' = [connections EXCEPT ![r.tenant] = NoConn]
  /\ proc' = [proc EXCEPT ![p] = [r EXCEPT !.pc = r.cret, !.closing = NoConn]]
  /\ UNCHANGED <<registeredSchemas, mutexVars, lockEpoch, stats, cacheVars, nConn, now,
                 connectionTimestamps, health, master, ops, faults, unregistered, ghostVars>>

\* connection.close() settled inside closeConnection: both map entries go.
ConnClosed(p) ==
  LET r == proc[p] IN
  /\ r.pc = "closing"
  /\ conn' = [conn EXCEPT ![r.closing].readyState = Disconnected, ![r.closing].closed = TRUE]
  /\ connections' = [connections EXCEPT ![r.tenant] = NoConn]
  /\ connectionTimestamps' = [connectionTimestamps EXCEPT ![r.tenant] = -1]
  /\ proc' = [proc EXCEPT ![p] = [r EXCEPT !.pc = r.cret, !.closing = NoConn]]
  /\ UNCHANGED <<registeredSchemas, mutexVars, lockEpoch, stats, cacheVars, nConn, now,
                 health, master, ops, faults, unregistered, ghostVars>>

\* getConnection after closing the bad connection: createConnection.
GcCreate(p) ==
  LET r == proc[p] IN
  /\ r.pc = "gc_create"
  /\ CreateConnSync(p, r, r.ret)
  /\ UNCHANGED <<registeredSchemas, mutexVars, lockEpoch, stats, cacheVars, now, health, master,
                 ops, faults, unregistered, ghostVars>>

\* getConnection resumed by the 'connected' event it waited for.
GcWoken(p) ==
  LET r == proc[p] IN
  /\ r.pc = "gc_woken"
  /\ connectionTimestamps' = [connectionTimestamps EXCEPT ![r.tenant] = now]
  /\ proc' = [proc EXCEPT ![p] = [r EXCEPT !.pc = r.ret]]
  /\ UNCHANGED <<registeredSchemas, mutexVars, lockEpoch, stats, cacheVars, connections,
                 conn, nConn, now, health, master, ops, faults, unregistered, ghostVars>>

\* ------------------------------------------------------------ environment
EventMarks(t) ==
  /\ overlap' = [q \in Procs |-> overlap[q] \/ Touches(q, t)]
  /\ tstate' = [u \in Tenants |->
                  IF (u = t \/ t = "*") /\ tstate[u] # "untouched" THEN "used" ELSE tstate[u]]
  /\ UNCHANGED coldBy

\* Redis 'connect' event
RedisConnect ==
  /\ ~isRedisConnected
  /\ faults < MaxFaults
  /\ faults' = faults + 1
  /\ isRedisConnected' = TRUE
  /\ proc' = [q \in Procs |-> IF Busy(q) THEN [proc[q] EXCEPT !.sawL2Up = TRUE] ELSE proc[q]]
  /\ UNCHANGED <<registeredSchemas, mutexVars, lockEpoch, stats, l1Cache, l2Store, ttl, connVars,
                 now, health, master, ops, unregistered, ghostVars>>

\* Redis 'error' / 'end' event
RedisDisconnect ==
  /\ isRedisConnected
  /\ faults < MaxFaults
  /\ faults' = faults + 1
  /\ isRedisConnected' = FALSE
  /\ UNCHANGED <<registeredSchemas, mutexVars, lockEpoch, stats, l1Cache, l2Store, ttl, connVars,
                 now, proc, health, master, ops, unregistered, ghostVars>>

\* A tracked connection loses its server: readyState 1 -> 0.
ConnDrop(t) ==
  /\ connections[t] # NoConn
  /\ conn[connections[t]].readyState = Connected
  /\ faults < MaxFaults
  /\ faults' = faults + 1
  /\ conn' = [conn EXCEPT ![connections[t]].readyState = Disconnected]
  /\ EventMarks(t)
  /\ UNCHANGED <<registeredSchemas, mutexVars, lockEpoch, stats, cacheVars, connections,
                 connectionTimestamps, nConn, now, proc, health, master, ops, unregistered,
                 invDone, banned>>

\* A tracked connection that lost its server is being opened again:
\* readyState 0 -> 2.
ConnReconnecting(t) ==
  /\ connections[t] # NoConn
  /\ conn[connections[t]].readyState = Disconnected
  /\ ~conn[connections[t]].closed
  /\ conn' = [conn EXCEPT ![connections[t]].readyState = Connecting]
  /\ EventMarks(t)
  /\ UNCHANGED <<registeredSchemas, mutexVars, lockEpoch, stats, cacheVars, connections,
                 connectionTimestamps, nConn, now, proc, health, master, ops, faults, unregistered,
                 invDone, banned>>

\* The reopening succeeded: readyState 2 -> 1 and 'connected' is emitted, which
\* resolves the promise of every getConnection waiting on this connection.
ConnReconnected(t) ==
  LET c == connections[t] IN
  /\ c # NoConn
  /\ conn[c].readyState = Connecting
  /\ conn' = [conn EXCEPT ![c].readyState = Connected]
  /\ proc' = [q \in Procs |->
                IF proc[q].pc = "gc_wait" /\ proc[q].conn = c
                THEN [proc[q] EXCEPT !.pc = "gc_woken"] ELSE proc[q]]
  /\ EventMarks(t)
  /\ UNCHANGED <<registeredSchemas, mutexVars, lockEpoch, stats, cacheVars, connections,
                 connectionTimestamps, nConn, now, health, master, ops, faults, unregistered,
                 invDone, banned>>

\* The reopening failed: readyState 2 -> 0 and 'error' is emitted.  The only
\* 'error' listener is the logging one of attachConnectionListeners; the
\* promise getConnection waits on listens to 'connected' alone.
ConnReconnectFailed(t) ==
  LET c == connections[t] IN
  /\ c # NoConn
  /\ conn[c].readyState = Connecting
  /\ faults < MaxFaults
  /\ faults' = faults + 1
  /\ conn' = [conn EXCEPT ![c].readyState = Disconnected]
  /\ EventMarks(t)
  /\ UNCHANGED <<registeredSchemas, mutexVars, lockEpoch, stats, cacheVars, connections,
                 connectionTimestamps, nConn, now, proc, health, master, ops, unregistered,
                 invDone, banned>>

\* Tier-1 TTL expiry or LRU eviction of a tenant's entry.
L1Expire(t) ==
  /\ l1Cache[t] # NoEntry
  /\ faults < MaxFaults
  /\ faults' = faults + 1
  /\ l1Cache' = [l1Cache EXCEPT ![t] = NoEntry]
  /\ ttl' = [ttl EXCEPT !.l1[t] = 0]
  /\ EventMarks(t)
  /\ UNCHANGED <<registeredSchemas, mutexVars, lockEpoch, stats, l2Store, isRedisConnected,
                 connVars, now, proc, health, master, ops, unregistered, invDone, banned>>

\* Tier-2 TTL expiry of a tenant's key.
L2Expire(t) ==
  /\ l2Store[t] # NoEntry
  /\ faults < MaxFaults
  /\ faults' = faults + 1
  /\ l2Store' = [l2Store EXCEPT ![t] = NoEntry]
  /\ ttl' = [ttl EXCEPT !.l2[t] = 0]
  /\ EventMarks(t)
  /\ UNCHANGED <<registeredSchemas, mutexVars, lockEpoch, stats, l1Cache, isRedisConnected,
                 connVars, now, proc, health, master, ops, unregistered, invDone, banned>>

\* The value under a tenant's tier-2 key is overwritten with something that is
\* not JSON.
L2Corrupt(t) ==
  /\ l2Store[t] # NoEntry
  /\ l2Store[t] # Corrupt
  /\ faults < MaxFaults
  /\ faults' = faults + 1
  /\ l2Store' = [l2Store EXCEPT ![t] = Corrupt]
  /\ UNCHANGED ttl
  /\ EventMarks(t)
  /\ UNCHANGED <<registeredSchemas, mutexVars, lockEpoch, stats, l1Cache, isRedisConnected,
                 connVars, now, proc, health, master, ops, unregistered, invDone, banned>>

\* Time passes: every cached entry has one unit less to live, and an entry
\* whose lifetime is over is gone from its tier.
Tick ==
  LET l1Left == [t \in Tenants |-> IF ttl.l1[t] > 0 THEN ttl.l1[t] - 1 ELSE 0]
      l2Left == [t \in Tenants |-> IF ttl.l2[t] > 0 THEN ttl.l2[t] - 1 ELSE 0]
  IN /\ now < MaxTime
     /\ now' = now + 1
     /\ ttl' = [l1 |-> l1Left, l2 |-> l2Left]
     /\ l1Cache' = [t \in Tenants |-> IF l1Left[t] = 0 THEN NoEntry ELSE l1Cache[t]]
     /\ l2Store' = [t \in Tenants |-> IF l2Left[t] = 0 THEN NoEntry ELSE l2Store[t]]
     /\ UNCHANGED <<registeredSchemas, mutexVars, lockEpoch, stats, isRedisConnected,
                    connVars, proc, health, master, ops, faults, unregistered, ghostVars>>

\* ------------------------------------------------------------ getModel
\* registerSchema on a Map: a new name is appended, a known one keeps its place.
Register(n) == IF n \in Range(registeredSchemas) THEN registeredSchemas
               ELSE Append(registeredSchemas, n)

\* getModel(tenantId, modelName): auto-register, then getModels.
GetModelStart(p, t, n) ==
  /\ Free(p)
  /\ Usable(t)
  /\ ops < MaxOps
  /\ ops' = ops + 1
  /\ registeredSchemas' = Register(n)
  /\ unregistered' = unregistered \ {n}
  /\ CacheGetSync(p, [NewCall("getModel", t) EXCEPT
                        !.name = n, !.autoReg = n \notin Range(registeredSchemas)])
  /\ StartMarks(p, t, {n})
  /\ invDone' = [invDone EXCEPT ![t] = -1]
  /\ UNCHANGED <<mutexVars, lockEpoch, stats, l1Cache, l2Store,
                 isRedisConnected, connVars, now, health, master, faults>>

\* registerSchema(modelName, schema) with a valid name and schema.
RegisterSchema(n) ==
  /\ ops < MaxOps
  /\ ops' = ops + 1
  /\ registeredSchemas' = Register(n)
  /\ unregistered' = unregistered \ {n}
  /\ banned' = [q \in Procs |-> banned[q] \ {n}]
  /\ UNCHANGED <<mutexVars, lockEpoch, stats, cacheVars, connVars, now, proc, health, master,
                 faults, tstate, invDone, overlap, coldBy>>

\* ----------------------------------------------------------- invalidation
\* CacheManager.delete up to its await.
CacheDeleteSync(p, r) ==
  /\ l1Cache' = [l1Cache EXCEPT ![r.tenant] = NoEntry]
  /\ ttl' = [ttl EXCEPT !.l1[r.tenant] = 0]
  /\ IF isRedisConnected
     THEN /\ proc' = [proc EXCEPT ![p] = [r EXCEPT !.pc = "l2del", !.nL2 = @ + 1,
                                                   !.delAt = now]]
          /\ UNCHANGED invDone
     ELSE /\ proc' = [proc EXCEPT ![p] = Settled(r, "ok", "")]
          /\ invDone' = [invDone EXCEPT ![r.tenant] = now]

\* invalidateCache(tenantId)
InvalidateStart(p, t) ==
  /\ Free(p)
  /\ Usable(t)
  /\ ops < MaxOps
  /\ ops' = ops + 1
  /\ CacheDeleteSync(p, NewCall("invalidateCache", t))
  /\ StartMarks(p, t, {})
  /\ UNCHANGED <<registeredSchemas, mutexVars, lockEpoch, stats, l2Store, isRedisConnected,
                 connVars, now, health, master, faults, unregistered>>

\* tier 2 deleted the key.
L2DelOk(p) ==
  LET r == proc[p] IN
  /\ r.pc = "l2del"
  /\ isRedisConnected
  /\ l2Store' = [l2Store EXCEPT ![r.tenant] = NoEntry]
  /\ ttl' = [ttl EXCEPT !.l2[r.tenant] = 0]
  /\ proc' = [proc EXCEPT ![p] = Settled(r, "ok", "")]
  /\ invDone' = [invDone EXCEPT ![r.tenant] = r.delAt]
  /\ UNCHANGED <<registeredSchemas, mutexVars, lockEpoch, stats, l1Cache, isRedisConnected,
                 connVars, now, health, master, ops, faults, unregistered, tstate, overlap, banned, coldBy>>

\* Variant of the failing tier-2 delete that lets the error escape; C13 must
\* not hold of it.
L2DelFailRaises(p) ==
  LET r == proc[p] IN
  /\ r.pc = "l2del"
  /\ \/ ~isRedisConnected /\ UNCHANGED faults
     \/ faults < MaxFaults /\ faults' = faults + 1
  /\ proc' = [proc EXCEPT ![p] = Settled(r, "failed", "Tier2")]
  /\ UNCHANGED <<registeredSchemas, mutexVars, lockEpoch, stats, cacheVars, connVars, now,
                 health, master, ops, unregistered, ghostVars>>

\* the tier-2 delete raised: logged, the call completes.
L2DelFail(p) ==
  LET r == proc[p] IN
  /\ r.pc = "l2del"
  /\ \/ ~isRedisConnected /\ UNCHANGED faults
     \/ faults < MaxFaults /\ faults' = faults + 1
  /\ proc' = [proc EXCEPT ![p] = Settled(r, "ok", "")]
  /\ invDone' = [invDone EXCEPT ![r.tenant] = r.delAt]
  /\ UNCHANGED <<registeredSchemas, mutexVars, lockEpoch, stats, cacheVars, connVars, now,
                 health, master, ops, unregistered, tstate, overlap, banned, coldBy>>

\* CacheManager.clear up to its await: tier 1 emptied, then KEYS models:*.
CacheClearSync(p, r) ==
  /\ l1Cache' = [t \in Tenants |-> NoEntry]
  /\ ttl' = [ttl EXCEPT !.l1 = [t \in Tenants |-> 0]]
  /\ IF isRedisConnected
     THEN proc' = [proc EXCEPT ![p] = [r EXCEPT !.pc = "l2keys", !.nL2 = @ + 1]]
     ELSE proc' = [proc EXCEPT ![p] = Settled(r, "ok", "")]

\* invalidateAllCache()
InvalidateAllStart(p) ==
  /\ Free(p)
  /\ ops < MaxOps
  /\ ops' = ops + 1
  /\ CacheClearSync(p, NewCall("invalidateAllCache", "*"))
  /\ StartMarks(p, "*", {})
  /\ UNCHANGED <<registeredSchemas, mutexVars, lockEpoch, stats, l2Store, isRedisConnected,
                 connVars, now, health, master, faults, unregistered, invDone>>

\* unregisterSchema(modelName) of a registered name: the name is removed and
\* invalidateAllCache() is started without being awaited; the process carries on
\* as that detached invalidation.
UnregisterSchema(p, n) ==
  /\ Free(p)
  /\ ops < MaxOps
  /\ n \in Range(registeredSchemas)
  /\ ops' = ops + 1
  /\ registeredSchemas' = SeqRemove(registeredSchemas, n)
  /\ unregistered' = unregistered \cup {n}
  /\ CacheClearSync(p, [NewCall("invalidateAllCache", "*") EXCEPT !.detached = TRUE])
  /\ StartMarks(p, "*", {})
  /\ invDone' = [invDone EXCEPT !["*"] = now]
  /\ UNCHANGED <<mutexVars, lockEpoch, stats, l2Store, isRedisConnected, connVars, now,
                 health, master, faults>>

\* KEYS answered: the keys found are deleted with one DEL.
L2KeysOk(p) ==
  LET r == proc[p]
      keys == {t \in Tenants : l2Store[t] # NoEntry}
  IN /\ r.pc = "l2keys"
     /\ isRedisConnected
     /\ IF keys # {}
        THEN proc' = [proc EXCEPT ![p] = [r EXCEPT !.pc = "l2delkeys", !.keys = keys,
                                                   !.nL2 = @ + 1]]
        ELSE proc' = [proc EXCEPT ![p] = Settled(r, "ok", "")]
     /\ UNCHANGED <<registeredSchemas, mutexVars, lockEpoch, stats, cacheVars, connVars, now,
                    health, master, ops, faults, unregistered, ghostVars>>

\* DEL keys answered.
L2DelKeysOk(p) ==
  LET r == proc[p] IN
  /\ r.pc = "l2delkeys"
  /\ isRedisConnected
  /\ l2Store' = [t \in Tenants |-> IF t \in r.keys THEN NoEntry ELSE l2Store[t]]
  /\ ttl' = [ttl EXCEPT !.l2 = [t \in Tenants |-> IF t \in r.keys THEN 0 ELSE ttl.l2[t]]]
  /\ proc' = [proc EXCEPT ![p] = Settled(r, "ok", "")]
  /\ UNCHANGED <<registeredSchemas, mutexVars, lockEpoch, stats, l1Cache, isRedisConnected,
                 connVars, now, health, master, ops, faults, unregistered, ghostVars>>

\* KEYS or DEL raised: logged, clear() completes.
L2ClearFail(p) ==
  LET r == proc[p] IN
  /\ r.pc \in {"l2keys", "l2delkeys"}
  /\ \/ ~isRedisConnected /\ UNCHANGED faults
     \/ faults < MaxFaults /\ faults' = faults + 1
  /\ proc' = [proc EXCEPT ![p] = Settled(r, "ok", "")]
  /\ UNCHANGED <<registeredSchemas, mutexVars, lockEpoch, stats, cacheVars, connVars, now,
                 health, master, ops, unregistered, ghostVars>>

\* closeTenantConnection(tenantId): closeConnection, then invalidateCache.
CloseTenantStart(p, t) ==
  /\ Free(p)
  /\ Usable(t)
  /\ ops < MaxOps
  /\ ops' = ops + 1
  /\ IF connections[t] # NoConn
     THEN CloseConnSync(p, NewCall("closeTenantConnection", t), "ctc_inv")
     ELSE /\ proc' = [proc EXCEPT ![p] = [NewCall("closeTenantConnection", t)
                                            EXCEPT !.pc = "ctc_inv"]]
          /\ UNCHANGED connVars
  /\ StartMarks(p, t, {})
  /\ UNCHANGED <<registeredSchemas, mutexVars, lockEpoch, stats, cacheVars, now, health, master,
                 faults, unregistered, invDone>>

\* closeTenantConnection after closeConnection: invalidateCache(tenantId).
CloseTenantInvalidate(p) ==
  LET r == proc[p] IN
  /\ r.pc = "ctc_inv"
  /\ CacheDeleteSync(p, r)
  /\ UNCHANGED <<registeredSchemas, mutexVars, lockEpoch, stats, l2Store, isRedisConnected,
                 connVars, now, health, master, ops, faults, unregistered, tstate, overlap, banned, coldBy>>

\* Variant of healthCheck that reports a missing tier 2 as unhealthy; C10 must
\* not hold of it.
HealthTier2Required(l2, threw) ==
  [status |-> IF threw \/ ~l2 THEN "unhealthy" ELSE "healthy", l2 |-> l2, threw |-> threw]

\* ------------------------------------------------ connection manager calls
\* connectionManager.getConnection(tenantId) called on the manager itself, as
\* the tenant middleware does.
GetConnectionStart(p, t) ==
  /\ Free(p)
  /\ Usable(t)
  /\ ops < MaxOps
  /\ ops' = ops + 1
  /\ GetConnSync(p, NewCall("getConnection", t), "gc_ret")
  /\ StartMarks(p, t, {})
  /\ UNCHANGED <<registeredSchemas, mutexVars, lockEpoch, stats, cacheVars, now, health, master,
                 faults, unregistered, invDone>>

\* getConnection returned the connection to its caller.
GetConnectionReturn(p) ==
  LET r == proc[p] IN
  /\ r.pc = "gc_ret"
  /\ proc' = [proc EXCEPT ![p] = Settled(r, "ok", "")]
  /\ EndMarks(r, FALSE, FALSE)
  /\ UNCHANGED <<registeredSchemas, mutexVars, lockEpoch, stats, cacheVars, connVars, now,
                 health, master, ops, faults, unregistered, invDone, overlap, banned>>

\* connectionManager.closeConnection(tenantId) called on the manager itself
\* (the admin endpoint): nothing to do for a tenant that is not tracked.
CloseConnectionStart(p, t) ==
  LET r == NewCall("closeConnection", t) IN
  /\ Free(p)
  /\ Usable(t)
  /\ ops < MaxOps
  /\ ops' = ops + 1
  /\ IF connections[t] = NoConn
     THEN /\ proc' = [proc EXCEPT ![p] = Settled([r EXCEPT !.stage = 0], "ok", "")]
          /\ UNCHANGED connVars
     ELSE CloseConnSync(p, r, "cl_ret")
  /\ StartMarks(p, t, {})
  /\ UNCHANGED <<registeredSchemas, mutexVars, lockEpoch, stats, cacheVars, now, health, master,
                 faults, unregistered, invDone>>

\* Variant of a failed close() that keeps the tenant tracked; C15 must not
\* hold of it.
ConnCloseFailKeepsEntries(p) ==
  LET r == proc[p] IN
  /\ r.pc = "closing"
  /\ faults < MaxFaults
  /\ faults' = faults + 1
  /\ proc' = [proc EXCEPT ![p] = [r EXCEPT !.pc = r.cret, !.closing = NoConn]]
  /\ UNCHANGED <<registeredSchemas, mutexVars, lockEpoch, stats, cacheVars, connVars, now,
                 health, master, ops, unregistered, ghostVars>>

\* connection.close() threw: closeConnection logs it and still deletes both
\* map entries of the tenant.
ConnCloseFail(p) ==
  LET r == proc[p] IN
  /\ r.pc = "closing"
  /\ faults < MaxFaults
  /\ faults' = faults + 1
  /\ connections' = [connections EXCEPT ![r.tenant] = NoConn]
  /\ connectionTimestamps' = [connectionTimestamps EXCEPT ![r.tenant] = -1]
  /\ proc' = [proc EXCEPT ![p] = [r EXCEPT !.pc = r.cret, !.closing = NoConn]]
  /\ UNCHANGED <<registeredSchemas, mutexVars, lockEpoch, stats, cacheVars, conn, nConn, now,
                 health, master, ops, unregistered, ghostVars>>

\* closeConnection returned to its caller.
CloseConnectionReturn(p) ==
  LET r == proc[p] IN
  /\ r.pc = "cl_ret"
  /\ proc' = [proc EXCEPT ![p] = Settled(r, "ok", "")]
  /\ EndMarks(r, FALSE, FALSE)
  /\ UNCHANGED <<registeredSchemas, mutexVars, lockEpoch, stats, cacheVars, connVars, now,
                 health, master, ops, faults, unregistered, invDone, overlap, banned>>

\* ------------------------------------------------------------- idle sweep
\* dbConfig.tenant.connectionTimeout (30 minutes), in units of the model's clock.
ConnectionTimeout == 2

\* Variant of the idle test that also closes a connection idle for exactly the
\* timeout; C14 must not hold of it.
ExpiredAtTimeout(ts, at) == at - ts >= ConnectionTimeout

\* closeInactiveConnections: now - timestamp > timeout
Expired(ts, at) == at - ts > ConnectionTimeout

\* The sweep calls closeConnection(t) for the next tenant t of its list: the
\* tracked connection, if any, starts closing.  connNow and tracked are the
\* connection objects and the connection map as they are at that point.
SweepCloseNext(p, r, t, connNow, tracked) ==
  LET c == tracked[t] IN
  /\ conn' = IF c # NoConn THEN [connNow EXCEPT ![c].readyState = Disconnecting] ELSE connNow
  /\ proc' = [proc EXCEPT ![p] = [r EXCEPT !.pc = "sw_close", !.name = t, !.closing = c,
                                           !.pending = @ \ {t}]]

\* closeInactiveConnections(): the idle tenants are listed from the timestamp
\* map, then closed one after the other.
SweepBegin(p) ==
  LET toClose == {t \in Tenants : /\ connectionTimestamps[t] # -1
                                  /\ Expired(connectionTimestamps[t], now)}
      r == [NewCall("closeInactiveConnections", "*") EXCEPT
              !.pending = toClose,
              !.snap = [at |-> now, connections |-> connections,
                        timestamps |-> connectionTimestamps, conn |-> conn]]
  IN /\ Free(p)
     /\ IF toClose = {}
        THEN /\ proc' = [proc EXCEPT ![p] = Settled(r, "ok", "")]
             /\ UNCHANGED conn
        ELSE \E t \in toClose : SweepCloseNext(p, r, t, conn, connections)
     /\ StartMarks(p, "*", {})
     /\ UNCHANGED <<registeredSchemas, mutexVars, lockEpoch, stats, cacheVars, connections,
                    connectionTimestamps, nConn, now, health, master, unregistered, invDone>>

\* closeInactiveConnections() called by the application.
SweepStart(p) ==
  /\ ops < MaxOps
  /\ ops' = ops + 1
  /\ SweepBegin(p)
  /\ UNCHANGED faults

\* The cleanup timer fires and calls closeInactiveConnections().
SweepTimer(p) ==
  /\ faults < MaxFaults
  /\ faults' = faults + 1
  /\ SweepBegin(p)
  /\ UNCHANGED ops

\* The sweep's closeConnection returned (closed is false when connection.close()
\* threw, which closeConnection catches): both map entries of the tenant go if
\* it was tracked, and the sweep goes on with the next tenant or ends.
SweepClosed(p, closed) ==
  LET r == proc[p]
      t == r.name
      c == r.closing
      connNow == IF c # NoConn /\ closed
                 THEN [conn EXCEPT ![c].readyState = Disconnected, ![c].closed = TRUE]
                 ELSE conn
      tracked == IF c # NoConn THEN [connections EXCEPT ![t] = NoConn] ELSE connections
  IN /\ r.pc = "sw_close"
     /\ closed \/ (c # NoConn /\ faults < MaxFaults)
     /\ faults' = IF closed THEN faults ELSE faults + 1
     /\ connections' = tracked
     /\ connectionTimestamps' = IF c # NoConn
                                THEN [connectionTimestamps EXCEPT ![t] = -1]
                                ELSE connectionTimestamps
     /\ IF r.pending = {}
        THEN /\ proc' = [proc EXCEPT ![p] = Settled(r, "ok", "")]
             /\ conn' = connNow
        ELSE \E u \in r.pending : SweepCloseNext(p, r, u, connNow, tracked)
     /\ UNCHANGED <<registeredSchemas, mutexVars, lockEpoch, stats, cacheVars, nConn, now,
                    health, master, ops, unregistered, ghostVars>>

\* --------------------------------------------------------------- healthCheck
\* healthCheck(): l2 is isL2Available(); threw is connectionManager.getStats()
\* raising, which the catch turns into unhealthy.
HealthResult(l2, threw) ==
  LET checksL1 == TRUE
      checksConnections == TRUE   \* totalConnections >= 0
      status == IF threw THEN "unhealthy"
                ELSE IF ~checksL1 \/ ~checksConnections THEN "unhealthy"
                ELSE IF ~l2 THEN "degraded"
                ELSE "healthy"
  IN [status |-> status, l2 |-> l2, threw |-> threw]

HealthCheck(threw) ==
  /\ health' = HealthResult(isRedisConnected, threw)
  /\ UNCHANGED <<registeredSchemas, mutexVars, lockEpoch, stats, cacheVars, connVars, now,
                 proc, master, ops, faults, unregistered, ghostVars>>

\* ------------------------------------------------------------------ shutdown
\* shutdown(): modelCreationLocks.clear(), then closeAll() calls closeConnection
\* for every tracked tenant at once (Promise.all), then cacheManager.close().
ShutdownStart(p) ==
  LET tracked == {connections[t] : t \in {u \in Tenants : connections[u] # NoConn}} IN
  /\ Free(p)
  /\ ops < MaxOps
  /\ lockEpoch < MaxShutdowns
  /\ ops' = ops + 1
  /\ lockEpoch' = lockEpoch + 1
  /\ modelCreationLocks' = [t \in Tenants |-> NoMutex]
  /\ conn' = [c \in ConnIds |-> IF c \in tracked
                                 THEN [conn[c] EXCEPT !.readyState = Disconnecting]
                                 ELSE conn[c]]
  /\ proc' = [proc EXCEPT ![p] = [NewCall("shutdown", "*") EXCEPT
                                    !.pc = IF tracked = {} THEN "sd_cache" ELSE "sd_close",
                                    !.pending = tracked]]
  /\ StartMarks(p, "*", {})
  /\ UNCHANGED <<registeredSchemas, mutexHolder, mutexQueue, stats, cacheVars, connections,
                 connectionTimestamps, nConn, now, health, master, faults, unregistered, invDone>>

\* one of closeAll's closeConnection calls finished.
ShutdownCloseOne(p, c) ==
  LET r == proc[p]
      t == conn[c].tenant
  IN /\ r.pc = "sd_close"
     /\ c \in r.pending
     /\ conn' = [conn EXCEPT ![c].readyState = Disconnected, ![c].closed = TRUE]
     /\ connections' = [connections EXCEPT ![t] = NoConn]
     /\ connectionTimestamps' = [connectionTimestamps EXCEPT ![t] = -1]
     /\ proc' = [proc EXCEPT ![p] =
                   [r EXCEPT !.pending = @ \ {c},
                             !.pc = IF r.pending = {c} THEN "sd_cache" ELSE "sd_close"]]
     /\ UNCHANGED <<registeredSchemas, mutexVars, lockEpoch, stats, cacheVars, nConn, now,
                    health, master, ops, faults, unregistered, ghostVars>>

\* cacheManager.close(): tier 1 cleared, then l2Client.quit() awaited.
ShutdownCache(p) ==
  LET r == proc[p] IN
  /\ r.pc = "sd_cache"
  /\ l1Cache' = [t \in Tenants |-> NoEntry]
  /\ ttl' = [ttl EXCEPT !.l1 = [t \in Tenants |-> 0]]
  /\ proc' = [proc EXCEPT ![p] = [r EXCEPT !.pc = "quit"]]
  /\ UNCHANGED <<registeredSchemas, mutexVars, lockEpoch, stats, l2Store, isRedisConnected,
                 connVars, now, health, master, ops, faults, unregistered, ghostVars>>

\* quit() settled: the client's 'end' event has cleared isRedisConnected.
ShutdownQuit(p) ==
  LET r == proc[p] IN
  /\ r.pc = "quit"
  /\ isRedisConnected' = FALSE
  /\ proc' = [proc EXCEPT ![p] = Settled(r, "ok", "")]
  /\ UNCHANGED <<registeredSchemas, mutexVars, lockEpoch, stats, l1Cache, l2Store, ttl,
                 connVars, now, health, master, ops, faults, unregistered, ghostVars>>

\* ------------------------------------------------------------- specifications
\* The steps of a getModels / getModel call after its start, when the storage
\* connection opens and every createIndexes succeeds.  Tier-2 commands may fail.
CallStep(p) ==
  \/ L2GetOk(p) \/ L2GetFail(p) \/ Got(p) \/ LockGranted(p) \/ Rebuild(p)
  \/ Ctm(p) \/ IdxOk(p) \/ L2SetOk(p) \/ L2SetFail(p) \/ ColdFinish(p)
  \/ CcConnected(p)

\* Storage failures and what getConnection does about a bad connection.
FailStep(p) ==
  \/ NoHit(p) \/ IdxFail(p) \/ CcError(p) \/ CcTimeout(p) \/ ConnClosed(p) \/ GcCreate(p)

InvalidateStep(p) ==
  \/ \E t \in Tenants : InvalidateStart(p, t)
  \/ L2DelOk(p) \/ L2DelFail(p)

ClearStep(p) ==
  \/ L2KeysOk(p) \/ L2DelKeysOk(p) \/ L2ClearFail(p)

ShutdownStep(p) ==
  \/ ShutdownStart(p) \/ ShutdownCache(p) \/ ShutdownQuit(p)
  \/ \E c \in ConnIds : ShutdownCloseOne(p, c)

Redis == RedisConnect \/ RedisDisconnect

\* Spec: concurrent getModels calls over a healthy storage engine, with tier 2
\* connecting, disconnecting and failing commands.
Next ==
  \/ \E p \in Procs : (\E t \in Tenants : GetModelsStart(p, t)) \/ CallStep(p)
  \/ Redis

Spec == Init /\ [][Next]_vars

\* SpecHealth: health probes while tier 2 flaps and invalidations run.
NextHealth ==
  \/ \E threw \in BOOLEAN : HealthCheck(threw)
  \/ \E p \in Procs : InvalidateStep(p)
  \/ Redis

SpecHealth == Init /\ [][NextHealth]_vars

\* SpecInvalidate: getModels calls and invalidateCache, tier 2 flapping.
NextInvalidate ==
  \/ \E p \in Procs :
       \/ \E t \in Tenants : GetModelsStart(p, t)
       \/ CallStep(p) \/ InvalidateStep(p)
  \/ Redis

SpecInvalidate == Init /\ [][NextInvalidate]_vars

\* SpecSchema: getModels calls, and getModel calls for names the catalogue
\* does not hold yet.
NextSchema ==
  \E p \in Procs :
     \/ \E t \in Tenants : GetModelsStart(p, t)
     \/ \E t \in Tenants, n \in Names \ Range(registeredSchemas) : GetModelStart(p, t, n)
     \/ CallStep(p)

SpecSchema == Init /\ [][NextSchema]_vars

\* SpecUnregister: getModels calls while schemas are unregistered and registered
\* again; tier 2 is up or down from the start and its commands may fail.
NextUnregister ==
  \/ \E p \in Procs :
       \/ \E t \in Tenants : GetModelsStart(p, t)
       \/ \E n \in Names : UnregisterSchema(p, n)
       \/ CallStep(p) \/ ClearStep(p)
  \/ \E n \in Names \ Range(registeredSchemas) : RegisterSchema(n)

SpecUnregister == Init /\ [][NextUnregister]_vars

\* SpecShutdown: getModels calls and shutdown().
NextShutdown ==
  \E p \in Procs :
     \/ \E t \in Tenants : GetModelsStart(p, t)
     \/ CallStep(p) \/ ShutdownStep(p)

SpecShutdown == Init /\ [][NextShutdown]_vars

\* SpecConn: getModels calls over a storage engine whose connections fail,
\* drop and are closed on request.
NextConn ==
  \/ \E p \in Procs :
       \/ \E t \in Tenants : GetModelsStart(p, t) \/ CloseTenantStart(p, t)
       \/ CallStep(p) \/ FailStep(p)
       \/ CloseTenantInvalidate(p) \/ L2DelOk(p) \/ L2DelFail(p)
  \/ \E t \in Tenants : ConnDrop(t)

SpecConn == Init /\ [][NextConn]_vars

\* SpecFail: getModels calls over a storage engine whose connections fail to
\* open and whose index builds fail.
NextFail ==
  \E p \in Procs :
     \/ \E t \in Tenants : GetModelsStart(p, t)
     \/ CallStep(p)
     \/ CcError(p) \/ CcTimeout(p) \/ IdxFail(p)

SpecFail == Init /\ [][NextFail]_vars

\* A getConnection whose promise 'connected' has resolved runs on as a microtask
\* of that event, before any other call or event.
Woken == \E q \in Procs : proc[q].pc = "gc_woken"

\* SpecTrack: getConnection and closeConnection on connections that drop and
\* are reopened by the driver, close() failing at times.
NextTrack ==
  \/ \E p \in Procs : GcWoken(p)
  \/ \E p \in Procs, t \in Tenants : ~Woken /\ GetConnectionStart(p, t)
  \/ \E p \in Procs, t \in Tenants : ~Woken /\ CloseConnectionStart(p, t)
  \/ \E p \in Procs : ~Woken /\ CcConnected(p)
  \/ \E p \in Procs : ~Woken /\ GetConnectionReturn(p)
  \/ \E p \in Procs : ~Woken /\ ConnClosed(p)
  \/ \E p \in Procs : ~Woken /\ GcCreate(p)
  \/ \E p \in Procs : ~Woken /\ ConnCloseFail(p)
  \/ \E p \in Procs : ~Woken /\ CloseConnectionReturn(p)
  \/ \E t \in Tenants : ~Woken /\ ConnDrop(t)
  \/ \E t \in Tenants : ~Woken /\ ConnReconnecting(t)
  \/ \E t \in Tenants : ~Woken /\ ConnReconnected(t)

SpecTrack == Init /\ [][NextTrack]_vars

\* ------------------------------------------------- MasterDataCache operations
MasterFrame ==
  UNCHANGED <<registeredSchemas, mutexVars, lockEpoch, stats, cacheVars, connVars, now,
              proc, health, unregistered, ghostVars>>

\* The client emits 'connect'.
MdConnect ==
  /\ ~master.isConnected
  /\ master' = [master EXCEPT !.isConnected = TRUE]
  /\ UNCHANGED <<ops, faults>> /\ MasterFrame

\* The client emits 'error' or 'end'.
MdError ==
  /\ master.isConnected
  /\ faults < MaxFaults
  /\ faults' = faults + 1
  /\ master' = [master EXCEPT !.isConnected = FALSE]
  /\ UNCHANGED ops /\ MasterFrame

\* set(tenantId, collection, data, identifier): SETEX of the generated key.
MdSet(t, c, i) ==
  /\ master.isConnected
  /\ ops < MaxOps
  /\ ops' = ops + 1
  /\ master' = [master EXCEPT !.store = @ \cup {generateKey(t, c, i)}, !.touched = TRUE]
  /\ UNCHANGED faults /\ MasterFrame

\* delete(tenantId, collection, identifier): DEL of the generated key.
MdDelete(t, c, i) ==
  /\ master.isConnected
  /\ ops < MaxOps
  /\ ops' = ops + 1
  /\ master' = [master EXCEPT !.store = @ \ {generateKey(t, c, i)}]
  /\ UNCHANGED faults /\ MasterFrame

\* invalidateCollection(tenantId, collection) up to its KEYS command; it returns
\* 0 at once when the client is not connected.
MdInvalidateStart(t, c) ==
  /\ master.pc \in {"idle", "done"}
  /\ ops < MaxOps
  /\ ops' = ops + 1
  /\ master' = [master EXCEPT
        !.tenant = t, !.collection = c, !.keys = {}, !.ret = 0, !.touched = FALSE,
        !.pattern = generateKey(t, c, <<"*">>),
        !.failed = ~master.isConnected,
        !.pc = IF master.isConnected THEN "keys" ELSE "done"]
  /\ UNCHANGED faults /\ MasterFrame

\* KEYS answers: no key, return 0; else go on to DEL.
MdKeysOk ==
  LET found == {k \in master.store : GlobMatch(master.pattern, k)} IN
  /\ master.pc = "keys"
  /\ master' = [master EXCEPT !.keys = found,
                               !.pc = IF found = {} THEN "done" ELSE "del"]
  /\ UNCHANGED <<ops, faults>> /\ MasterFrame

\* DEL answers with the number of keys it removed.
MdDelOk ==
  /\ master.pc = "del"
  /\ master' = [master EXCEPT !.store = @ \ master.keys,
                               !.ret = Cardinality(master.keys \cap master.store),
                               !.pc = "done"]
  /\ UNCHANGED <<ops, faults>> /\ MasterFrame

\* KEYS or DEL rejects: the catch logs and returns 0.
MdCommandFail ==
  /\ master.pc \in {"keys", "del"}
  /\ faults < MaxFaults
  /\ faults' = faults + 1
  /\ master' = [master EXCEPT !.ret = 0, !.failed = TRUE, !.pc = "done"]
  /\ UNCHANGED ops /\ MasterFrame

\* SpecMaster: the master-data cache on its own.
NextMaster ==
  \/ MdConnect \/ MdError
  \/ \E t \in Tenants, c \in Collections :
        \/ \E i \in Identifiers \cup {Null} : MdSet(t, c, i) \/ MdDelete(t, c, i)
        \/ MdInvalidateStart(t, c)
  \/ MdKeysOk \/ MdDelOk \/ MdCommandFail

SpecMaster == Init /\ [][NextMaster]_vars

\* The steps of a getModels call when every await settles without an error.
OkStep(p) ==
  \/ L2GetOk(p) \/ Got(p) \/ LockGranted(p) \/ Rebuild(p) \/ Ctm(p) \/ IdxOk(p)
  \/ L2SetOk(p) \/ ColdFinish(p) \/ CcConnected(p)

\* SpecRetry: getModels calls whose connection or index build may fail, tier 2
\* answering every command.  Every await settles: a call that can go on
\* eventually does, unless a failure ends it.
NextRetry ==
  \E p \in Procs :
     \/ \E t \in Tenants : GetModelsStart(p, t)
     \/ OkStep(p)
     \/ CcError(p) \/ IdxFail(p)

SpecRetry == Init /\ [][NextRetry]_vars /\ \A p \in Procs : WF_vars(OkStep(p))

\* SpecCache: the cache operations under getModels, invalidateCache and
\* invalidateAllCache, with tier 2 up or down, commands failing and stored
\* values corrupted.
NextCache ==
  \/ \E p \in Procs :
       \/ \E t \in Tenants : GetModelsStart(p, t)
       \/ InvalidateAllStart(p)
       \/ CallStep(p) \/ InvalidateStep(p) \/ ClearStep(p)
  \/ \E t \in Tenants : L2Corrupt(t)

SpecCache == Init /\ [][NextCache]_vars

\* SpecSweep: the connection manager on its own: getConnection calls, the
\* clock and the idle sweep.
NextSweep ==
  \/ \E p \in Procs :
       \/ \E t \in Tenants : GetConnectionStart(p, t)
       \/ CcConnected(p) \/ GetConnectionReturn(p) \/ ConnClosed(p) \/ GcCreate(p)
       \/ SweepStart(p)
       \/ \E closed \in BOOLEAN : SweepClosed(p, closed)
  \/ Tick

SpecSweep == Init /\ [][NextSweep]_vars

\* SpecSweepTimer: getConnection calls and the clock, with the idle sweep run
\* by the cleanup timer.
NextSweepTimer ==
  \/ \E p \in Procs :
       \/ \E t \in Tenants : GetConnectionStart(p, t)
       \/ CcConnected(p) \/ GetConnectionReturn(p) \/ ConnClosed(p) \/ GcCreate(p)
       \/ SweepTimer(p)
       \/ \E closed \in BOOLEAN : SweepClosed(p, closed)
  \/ Tick

SpecSweepTimer == Init /\ [][NextSweepTimer]_vars

\* SpecOpen: getConnection calls on the manager over a storage engine whose
\* connections fail to open.
NextOpen ==
  \E p \in Procs :
    \/ \E t \in Tenants : GetConnectionStart(p, t)
    \/ CcConnected(p) \/ GetConnectionReturn(p) \/ CcError(p) \/ CcTimeout(p)

SpecOpen == Init /\ [][NextOpen]_vars

\* SpecReconnect: getConnection calls on the manager while tracked connections
\* drop and are opened again.
NextReconnect ==
  \/ \E p \in Procs :
       \/ \E t \in Tenants : GetConnectionStart(p, t)
       \/ CcConnected(p) \/ GetConnectionReturn(p) \/ ConnClosed(p) \/ GcCreate(p)
       \/ GcWoken(p)
  \/ \E t \in Tenants :
       ConnDrop(t) \/ ConnReconnecting(t) \/ ConnReconnected(t) \/ ConnReconnectFailed(t)

SpecReconnect == Init /\ [][NextReconnect]_vars

\* SpecClose: the connection manager on its own: getConnection and
\* closeConnection calls, close() failing.
NextClose ==
  \E p \in Procs :
    \/ \E t \in Tenants : GetConnectionStart(p, t) \/ CloseConnectionStart(p, t)
    \/ CcConnected(p) \/ GetConnectionReturn(p) \/ ConnClosed(p) \/ GcCreate(p)
    \/ ConnCloseFail(p) \/ CloseConnectionReturn(p)

SpecClose == Init /\ [][NextClose]_vars

\* No call is running.
Quiescent == \A q \in Procs : ~Busy(q)

\* SpecTtl: getModels, invalidateCache and invalidateAllCache called one after
\* the other while time passes and entries expire in both tiers; no tier-2
\* command fails and the tier-2 connection does not change.
NextTtl ==
  \/ \E p \in Procs :
       \/ Quiescent /\ \E t \in Tenants : GetModelsStart(p, t) \/ InvalidateStart(p, t)
       \/ Quiescent /\ InvalidateAllStart(p)
       \/ L2GetOk(p) \/ Got(p) \/ LockGranted(p) \/ Rebuild(p) \/ Ctm(p) \/ IdxOk(p)
       \/ L2SetOk(p) \/ ColdFinish(p) \/ CcConnected(p)
       \/ L2DelOk(p) \/ L2KeysOk(p) \/ L2DelKeysOk(p)
  \/ Tick

SpecTtl == Init /\ [][NextTtl]_vars

\* ---------------------------------------------------------------- properties
Done(p) == proc[p].pc = "done"
DoneGet(p) == Done(p) /\ proc[p].op = "getModels"

\* connection objects ever created for tenant t
ConnsCreated(t) == {c \in ConnIds : conn[c].used /\ conn[c].tenant = t}
\* connections of tenant t that are open: connected and never closed
OpenConns(t) == {c \in ConnsCreated(t) : conn[c].readyState = Connected /\ ~conn[c].closed}
\* callers inside createTenantModels + cacheModels for tenant t
InColdSection(t) == {p \in Procs : proc[p].inCold /\ proc[p].tenant = t}
\* cold materializations of tenant t, finished or under way
ColdCount(t) == coldBy[t] + Cardinality(InColdSection(t))

RECURSIVE SumOver(_, _)
SumOver(f, S) ==
  IF S = {} THEN 0
  ELSE LET x == CHOOSE y \in S : TRUE IN f[x] + SumOver(f, S \ {x})

\* C1: concurrent getModels(T) calls for a tenant with no cache entry, with no
\* invalidation and no storage failure: one connection is created for T, one
\* caller materializes (the cold-materialization counter counts it once),
\* every call succeeds, and all calls return the same set of model names.
C1_SingleColdMaterialization ==
  /\ stats.modelCreations = SumOver(coldBy, Tenants)
  /\ \A t \in Tenants :
       /\ Cardinality(ConnsCreated(t)) <= 1
       /\ ColdCount(t) <= 1
       /\ \A p \in Procs :
            DoneGet(p) /\ proc[p].tenant = t =>
              /\ proc[p].status = "ok"
              /\ ColdCount(t) = 1
              /\ Cardinality(ConnsCreated(t)) = 1
              /\ \A q \in Procs :
                   DoneGet(q) /\ proc[q].tenant = t => proc[q].models = proc[p].models

\* Two overlapping calls for one tenant have both returned: one materialized, the
\* other missed the cache, queued on the mutex and was answered by the re-check.
C1_Witness ==
  \E p, q \in Procs :
    /\ p # q /\ DoneGet(p) /\ DoneGet(q)
    /\ proc[p].tenant = proc[q].tenant
    /\ overlap[p] /\ overlap[q]
    /\ proc[p].path = "cold"
    /\ proc[q].path \in {"L1", "L2"} /\ proc[q].stage = 2

\* C7: the first getModels(T) for an untouched tenant creates one connection and
\* writes the cache once; a second getModels(T) right after it is answered from
\* tier 1 without creating a connection and without any tier-2 command.
C7_FirstColdSecondTier1 ==
  \A p \in Procs :
    DoneGet(p) /\ ~overlap[p] =>
      /\ proc[p].role = "first" =>
           /\ proc[p].status = "ok" /\ proc[p].path = "cold"
           /\ proc[p].nOpen = 1 /\ proc[p].nSet = 1
      /\ proc[p].role = "second" =>
           /\ proc[p].status = "ok" /\ proc[p].path = "L1"
           /\ proc[p].nOpen = 0 /\ proc[p].nSet = 0 /\ proc[p].nL2 = 0

\* The first call for a tenant and the call right after it have both returned.
C7_Witness ==
  \E p, q \in Procs :
    /\ p # q /\ DoneGet(p) /\ DoneGet(q)
    /\ proc[p].tenant = proc[q].tenant
    /\ ~overlap[p] /\ ~overlap[q]
    /\ proc[p].role = "first" /\ proc[q].role = "second"

\* C9: getModels succeeds whether or not tier 2 is available, with the same
\* names (the whole catalogue) in both cases; a cold materialization leaves
\* its entry in tier 1 even when tier 2 is down.
C9_Tier2Optional ==
  \A p \in Procs :
    DoneGet(p) =>
      /\ proc[p].status = "ok"
      /\ proc[p].models = Range(registeredSchemas)
      /\ proc[p].path = "cold" =>
           /\ l1Cache[proc[p].tenant] # NoEntry
           /\ DOMAIN l1Cache[proc[p].tenant].models = proc[p].models

\* Tier 2 was down throughout two calls: one materialized, one was answered from
\* tier 1.
C9_Witness ==
  \E p, q \in Procs :
    /\ DoneGet(p) /\ DoneGet(q)
    /\ ~proc[p].sawL2Up /\ ~proc[q].sawL2Up /\ ~isRedisConnected
    /\ proc[p].path = "cold" /\ proc[q].path = "L1"
    /\ l2Store[proc[p].tenant] = NoEntry /\ l2Store[proc[q].tenant] = NoEntry

\* C2: for each tenant at most one caller is inside the cold-materialization
\* section (createTenantModels followed by cacheModels) at any time.
C2_OneCallerInColdSection ==
  \A t \in Tenants : Cardinality(InColdSection(t)) <= 1

\* C3: a getModels(T) that starts right after invalidateCache(T) completed is
\* never answered by rebuilding handles from an entry that was cached before
\* that invalidation began.
C3_NoStaleRebuildAfterInvalidate ==
  \A p \in Procs :
    (DoneGet(p) /\ proc[p].invAt >= 0 /\ proc[p].path \in {"L1", "L2"}) =>
      proc[p].cached.timestamp >= proc[p].invAt

\* C4: getModel(T, M) for a name M the catalogue did not hold, running alone on
\* T, returns a handle for M, whether or not T already has a cached model set.
C4_AutoRegisteredNameResolves ==
  \A p \in Procs :
    (Done(p) /\ proc[p].op = "getModel" /\ proc[p].autoReg /\ ~overlap[p]) =>
      /\ proc[p].status = "ok"
      /\ proc[p].name \in proc[p].models

\* C5: a getModels call that starts after unregisterSchema(name) returned never
\* returns a handle for name, from cache or cold, until name is registered again.
C5_NoHandleForUnregistered ==
  \A p \in Procs : DoneGet(p) => proc[p].models \cap banned[p] = {}

\* A call that started after an unregisterSchema was answered from a cached
\* entry that still lists the unregistered name.
C5_Witness ==
  \E p \in Procs :
    /\ DoneGet(p) /\ proc[p].status = "ok"
    /\ proc[p].path \in {"L1", "L2"}
    /\ DOMAIN proc[p].cached.models \cap banned[p] # {}

\* C6: every getModels call answered from tier 1, running alone on its tenant,
\* has incremented the tier-1 hit counter.
C6_Tier1HitCounted ==
  \A p \in Procs :
    (DoneGet(p) /\ proc[p].path = "L1" /\ ~overlap[p]) => stats.l1 > proc[p].l1Before

\* C8: for every tenant at most one connection is open (opened by the manager
\* and not closed), tracked or not.
C8_OneOpenConnectionPerTenant ==
  \A t \in Tenants : Cardinality(OpenConns(t)) <= 1

\* C10: healthCheck() reports healthy exactly when tier 2 is available and the
\* connection manager's statistics can be read, degraded exactly when tier 2
\* is unavailable and they can be read, unhealthy only when reading them fails.
C10_HealthStatus ==
  [][health' # health =>
       /\ health'.status \in {"healthy", "degraded", "unhealthy"}
       /\ health'.status = "healthy" <=> (isRedisConnected /\ ~health'.threw)
       /\ health'.status = "degraded" <=> (~isRedisConnected /\ ~health'.threw)
       /\ health'.status = "unhealthy" => health'.threw]_vars

\* A health check ran while tier 2 was down and the statistics were readable.
C10_Witness ==
  /\ health.status = "degraded"
  /\ ~health.l2 /\ ~health.threw

\* C11: a getModels call whose cold materialization failed (connection or
\* bind) wrote no cache entry and counted no materialization; an entry exists
\* in a tier only if some call bound every registered schema and wrote it.
C11_FailedColdWritesNothing ==
  /\ stats.modelCreations = SumOver(coldBy, Tenants)
  /\ \A p \in Procs :
       /\ (DoneGet(p) /\ proc[p].status = "failed") =>
            proc[p].nSet = 0 /\ proc[p].path # "cold"
       /\ proc[p].nSet > 0 =>
            /\ proc[p].models = Range(registeredSchemas)
            /\ DOMAIN proc[p].cached.models = proc[p].models
  /\ \A t \in Tenants :
       (l1Cache[t] # NoEntry \/ l2Store[t] # NoEntry) =>
          \/ coldBy[t] > 0
          \/ \E p \in Procs : proc[p].tenant = t /\ proc[p].pc \in {"l2set", "setdone"}

\* A materialization failed at a bind after binding part of the catalogue, and
\* its tenant has no entry in either tier.
C11_Witness ==
  \E p \in Procs :
    /\ DoneGet(p) /\ proc[p].status = "failed" /\ proc[p].error = "Bind"
    /\ proc[p].models # {}
    /\ l1Cache[proc[p].tenant] = NoEntry /\ l2Store[proc[p].tenant] = NoEntry

\* C12: within one getModels call a failed connection attempt is never
\* followed by another attempt of the same call, and the call rejects.
C12_FailedAttemptNotRetried ==
  \A p \in Procs :
    (IsGetModels(proc[p]) /\ proc[p].nFail > 0) =>
      /\ proc[p].nOpen = proc[p].nFail
      /\ Done(p) => proc[p].status = "failed"

\* C13: no tier-2 failure makes a cache operation raise.  A get that leaves its
\* tier-2 read goes on with a value or a miss; set, delete and clear go on to
\* their normal completion; and each operation's tier-1 effect is applied when
\* it is called, whatever tier 2 does.
C13_Tier2FailuresSwallowed ==
  [][\A p \in Procs :
       LET r == proc[p]
           r2 == proc'[p]
           started == r2 # r /\ ops' = ops + 1
       IN /\ (r.pc = "l2get" /\ r2.pc # "l2get") =>
               /\ r2.pc = "got"
               /\ r2.cached = NoEntry \/ r2.cached = l1Cache'[r.tenant]
          /\ (r.pc = "l2set" /\ r2.pc # "l2set") => r2.pc = "setdone"
          /\ (r.pc = "l2del" /\ r2.pc # "l2del") => r2.pc = "done" /\ r2.status = "ok"
          /\ (r.pc = "l2keys" /\ r2.pc # "l2keys") =>
               r2.pc = "l2delkeys" \/ (r2.pc = "done" /\ r2.status = "ok")
          /\ (r.pc = "l2delkeys" /\ r2.pc # "l2delkeys") =>
               r2.pc = "done" /\ r2.status = "ok"
          /\ r2.nSet > r.nSet =>
               l1Cache'[r.tenant] = r2.cached /\ r2.pc \in {"l2set", "setdone"}
          /\ (started /\ r2.op = "invalidateCache") =>
               /\ l1Cache'[r2.tenant] = NoEntry
               /\ r2.pc = "l2del" \/ (r2.pc = "done" /\ r2.status = "ok")
          /\ (started /\ r2.op = "invalidateAllCache") =>
               /\ \A t \in Tenants : l1Cache'[t] = NoEntry
               /\ r2.pc = "l2keys" \/ (r2.pc = "done" /\ r2.status = "ok")]_vars

\* An invalidateCache that ran alone on its tenant sent its tier-2 delete and
\* completed normally although the tier-2 value is still there.
C13_Witness ==
  \E p \in Procs :
    /\ Done(p) /\ proc[p].op = "invalidateCache" /\ proc[p].status = "ok"
    /\ ~overlap[p] /\ proc[p].nL2 = 1
    /\ l1Cache[proc[p].tenant] = NoEntry /\ l2Store[proc[p].tenant] # NoEntry

\* C14: a closeInactiveConnections() run with nothing else going on removes
\* exactly the tracked connections idle for more than the timeout (when the
\* sweep began) and leaves every other connection and timestamp as it was.
C14_SweepClosesExactlyIdle ==
  [][\A p \in Procs :
       (/\ proc'[p].op = "closeInactiveConnections"
        /\ proc[p].pc # "done" /\ proc'[p].pc = "done"
        /\ ~overlap'[p]) =>
         LET s == proc'[p].snap IN
         /\ proc'[p].status = "ok"
         /\ \A t \in Tenants :
              IF s.timestamps[t] # -1 /\ s.at - s.timestamps[t] > ConnectionTimeout
              THEN /\ connections'[t] = NoConn
                   /\ connectionTimestamps'[t] = -1
                   /\ s.connections[t] # NoConn
                   /\ conn'[s.connections[t]].readyState # Connected
              ELSE /\ connections'[t] = s.connections[t]
                   /\ connectionTimestamps'[t] = s.timestamps[t]
                   /\ s.connections[t] # NoConn =>
                        conn'[s.connections[t]] = s.conn[s.connections[t]]]_vars

\* A sweep that ran alone has ended: it closed one tenant's connection and kept
\* another's, which had been idle for exactly the timeout.
C14_Witness ==
  \E p \in Procs :
    /\ Done(p) /\ proc[p].op = "closeInactiveConnections" /\ ~overlap[p]
    /\ \E t, u \in Tenants :
         /\ proc[p].snap.connections[t] # NoConn
         /\ conn[proc[p].snap.connections[t]].closed
         /\ connections[t] = NoConn
         /\ proc[p].snap.at - proc[p].snap.timestamps[u] = ConnectionTimeout
         /\ connections[u] = proc[p].snap.connections[u]
         /\ connections[u] # NoConn /\ conn[connections[u]].readyState = Connected

\* C15: closeConnection(T) never raises; started on a tenant that is not
\* tracked it returns at once and changes nothing of the connection manager;
\* on a tracked tenant, when connection.close() has returned or thrown both
\* map entries of T are gone.
C15_CloseConnectionIdempotent ==
  [][\A p \in Procs :
       /\ (proc'[p].op = "closeConnection" /\ proc'[p].pc = "done") =>
            proc'[p].status = "ok"
       /\ (/\ ops' = ops + 1 /\ Free(p)
           /\ proc'[p].op = "closeConnection"
           /\ connections[proc'[p].tenant] = NoConn) =>
            /\ UNCHANGED connVars
            /\ proc'[p].pc = "done"
       /\ (/\ proc[p].op = "closeConnection"
           /\ proc[p].pc = "closing" /\ proc'[p].pc # "closing") =>
            /\ connections'[proc[p].tenant] = NoConn
            /\ connectionTimestamps'[proc[p].tenant] = -1]_vars

\* A second closeConnection(T) has returned without doing anything, after a
\* first one whose close() failed had removed the tenant's entries.
C15_Witness ==
  \E p \in Procs, c \in ConnIds :
    /\ Done(p) /\ proc[p].op = "closeConnection" /\ proc[p].stage = 0
    /\ conn[c].used /\ conn[c].tenant = proc[p].tenant
    /\ conn[c].readyState = Disconnecting /\ ~conn[c].closed
    /\ connections[proc[p].tenant] = NoConn
    /\ connectionTimestamps[proc[p].tenant] = -1

\* C16: a getModels call made after shutdown() has completed fails.
C16_UnusableAfterShutdown ==
  \A p \in Procs :
    (DoneGet(p) /\ proc[p].afterShutdown) => proc[p].status = "failed"

\* C17: when getModels(T) returns handles rebuilt from a cache hit, the
\* connection they are bound to is neither closed nor being closed by a
\* closeConnection.
C17_CacheHitOnLiveConnection ==
  [][\A p \in Procs :
       (/\ IsGetModels(proc[p]) /\ proc[p].pc = "rebuild"
        /\ proc'[p].pc = "done" /\ proc'[p].status = "ok") =>
         /\ conn'[proc'[p].conn].readyState # Disconnecting
         /\ ~conn'[proc'[p].conn].closed]_vars

\* C18: a getModels call that starts after unregisterSchema(name) returned is
\* never answered from a cache entry written before that unregistration.
C18_UnregisterInvalidatesAll ==
  \A p \in Procs :
    (DoneGet(p) /\ proc[p].unregAt >= 0 /\ proc[p].path \in {"L1", "L2"}) =>
      proc[p].cached.timestamp >= proc[p].unregAt

\* C19: a getConnection(T) that failed because the open timed out and one that
\* failed because the open raised give their callers different errors.
C19_OpenFailuresDistinguishable ==
  \A p, q \in Procs :
    (/\ Done(p) /\ Done(q)
     /\ proc[p].op = "getConnection" /\ proc[q].op = "getConnection"
     /\ proc[p].tenant = proc[q].tenant
     /\ proc[p].status = "failed" /\ proc[q].status = "failed"
     /\ proc[p].cause = "timeout" /\ proc[q].cause = "error") =>
      proc[p].error # proc[q].error

\* C20: calls for different tenants never block each other: a getModels call
\* queued on a mutex waits for a call of its own tenant, and a getModels call
\* with no other call running on its tenant always has a step to take.
C20_TenantsDoNotBlockEachOther ==
  \A p \in Procs :
    (Busy(p) /\ IsGetModels(proc[p])) =>
      /\ (proc[p].pc = "lock" /\ mutexHolder[MutexOf(proc[p])] # p) =>
           \E q \in Procs \ {p} :
             /\ mutexHolder[MutexOf(proc[p])] = q
             /\ proc[q].tenant = proc[p].tenant
      /\ (\A q \in Procs \ {p} : Busy(q) => proc[q].tenant # proc[p].tenant) =>
           ENABLED CallStep(p)

\* While acme's cold materialization holds acme's mutex and is suspended at an
\* I/O point, a getModels call for another tenant has materialized its models
\* and returned.
C20_Witness ==
  \E p, q \in Procs :
    /\ proc[p].inCold /\ proc[p].pc \in {"cc_wait", "idx", "l2set"}
    /\ mutexHolder[MutexOf(proc[p])] = p
    /\ DoneGet(q) /\ proc[q].tenant # proc[p].tenant
    /\ proc[q].path = "cold" /\ proc[q].status = "ok"

\* C21: while tier 2 is available and between calls, every tenant with an
\* entry in tier 1 has one in tier 2.
C21_Tier1WithinTier2 ==
  (isRedisConnected /\ Quiescent) =>
    \A t \in Tenants : l1Cache[t] # NoEntry => l2Store[t] # NoEntry

\* C22: when a cache get is answered from tier 2, tier 1 holds the returned
\* value for the tenant afterwards; and a get on a tenant that has a tier-1
\* entry returns that entry from tier 1 without a tier-2 query.
C22_Tier2HitPopulatesTier1 ==
  [][\A p \in Procs :
       /\ (proc[p].pc = "l2get" /\ proc'[p].pc = "got" /\ proc'[p].src = "L2") =>
            /\ proc'[p].cached = Parse(l2Store[proc[p].tenant])
            /\ l1Cache'[proc[p].tenant] = proc'[p].cached
       /\ (/\ ops' = ops + 1 /\ Free(p)
           /\ proc'[p].op = "getModels"
           /\ l1Cache[proc'[p].tenant] # NoEntry) =>
            /\ proc'[p].pc = "got" /\ proc'[p].src = "L1"
            /\ proc'[p].cached = l1Cache[proc'[p].tenant]
            /\ proc'[p].nL2 = 0]_vars

\* A getModels call answered from tier 2 is followed by one on the same tenant
\* whose cache get has returned the same entry from tier 1, tier 2 not queried.
C22_Witness ==
  \E p \in Procs :
    /\ proc[p].op = "getModels" /\ proc[p].pc = "got"
    /\ proc[p].prevPath = "L2"
    /\ proc[p].src = "L1" /\ proc[p].nL2 = 0
    /\ proc[p].cached = l1Cache[proc[p].tenant]
    /\ l2Store[proc[p].tenant] # NoEntry
    /\ proc[p].cached = Parse(l2Store[proc[p].tenant])

\* C23: whenever the idle sweep starts closing a tenant's connection, the
\* tenant's last-used timestamp is older than the idle timeout at that moment.
C23_SweepClosesOnlyIdle ==
  [][\A p \in Procs :
       (/\ proc'[p].op = "closeInactiveConnections"
        /\ proc'[p].pc = "sw_close" /\ proc'[p].closing # NoConn
        /\ proc'[p] # proc[p]) =>
         now' - connectionTimestamps'[proc'[p].name] > ConnectionTimeout]_vars

\* C24: a getConnection call that waits on a connecting connection is resumed
\* by the signal that ends the connecting, so it is never still waiting once
\* the connection has left the Connecting state.
C24_ConnectingWaitEnds ==
  \A p \in Procs :
    proc[p].pc = "gc_wait" => conn[proc[p].conn].readyState = Connecting

\* C25: a getModels call that failed holds no tenant mutex and waits for none;
\* the getModels call that follows a failed one on the same tenant misses the
\* cache on its first check and, no other call of the tenant running beside it,
\* succeeds only by materializing, or fails by its own attempt; and every call
\* queued on a tenant's mutex eventually gets it.
C25_FailureReleasesLock ==
  /\ [](\A p \in Procs :
          /\ (DoneGet(p) /\ proc[p].status = "failed") =>
               \A m \in MutexIds :
                 mutexHolder[m] # p /\ p \notin Range(mutexQueue[m])
          /\ (DoneGet(p) /\ proc[p].prevPath = "failed" /\ ~overlap[p]) =>
               /\ proc[p].stage = 2
               /\ proc[p].status = "ok" => proc[p].path = "cold"
               /\ proc[p].status = "failed" => proc[p].nFail > 0 \/ proc[p].error = "Bind")
  /\ \A p \in Procs : (proc[p].pc = "lock") ~> (proc[p].pc # "lock")

\* A call that followed a failed one on the same tenant, alone, took the
\* tenant's mutex after missing the cache and has materialized.
C25_Witness ==
  \E r \in Procs :
    /\ DoneGet(r) /\ proc[r].prevPath = "failed" /\ ~overlap[r]
    /\ proc[r].status = "ok" /\ proc[r].path = "cold" /\ proc[r].stage = 2
    /\ stats.errors > 0

\* C26: when an invalidateCollection(T, C) has completed without an error and
\* nothing was stored meanwhile, no key of tenant T and collection C is left,
\* neither the key without identifier nor a key with one, and every key it
\* removed was a key of T and C.
C26_InvalidateRemovesCollection ==
  (master.pc = "done" /\ ~master.failed /\ ~master.touched) =>
     /\ \A i \in Identifiers \cup {Null} :
          generateKey(master.tenant, master.collection, i) \notin master.store
     /\ \A k \in master.keys :
          \E i \in Identifiers \cup {Null} :
            k = generateKey(master.tenant, master.collection, i)

C28_NoUntrackedOpenConnection ==
  \A c \in ConnIds :
    (conn[c].used /\ ~conn[c].closed /\ conn[c].readyState = Connected) =>
       connections[conn[c].tenant] = c

\* C29: a successful getModels call that ran with no other call beside it, the
\* catalogue being what it was when the call started, has returned a handle for
\* exactly the registered names.
C29_ReturnsRegisteredNames ==
  \A p \in Procs :
    (DoneGet(p) /\ proc[p].status = "ok" /\ ~overlap[p]
       /\ Range(registeredSchemas) = proc[p].regAt) =>
       proc[p].models = proc[p].regAt

\* C30: when every getModels call made so far has completed, tier-1 hits plus
\* tier-2 hits plus misses equals the number of calls made.
C30_EachCallCountedOnce ==
  Quiescent => stats.l1 + stats.l2 + stats.cacheMisses = ops

====
